---- MODULE Spec2Model ----
(***************************************************************************)
(* A model of the UFRO assistant's retrieval-augmented-generation core:    *)
(* the vector index (rag/embedding_system.py), the retriever and answer    *)
(* router (rag/rag_system.py), the generation backends (providers/*.py)    *)
(* and the chunker (scripts/ingest_documents.py).                          *)
(*                                                                         *)
(* Python values are encoded as follows.  A str whose characters matter    *)
(* is the sequence of its characters; Optional[x] is <<>> for None and     *)
(* <<x>> otherwise; a dict is a record; a list is a sequence; list and     *)
(* FAISS row indices stay 0-based as in the code.                          *)
(***************************************************************************)
EXTENDS Integers, Sequences, FiniteSets, TLC

VARIABLES
  index,      \* EmbeddingSystem.index: <<>> is None, <<vecs>> a FAISS index holding vecs
  chunks,     \* EmbeddingSystem.chunks, the segment list parallel to the index rows
  disk,       \* the two persisted files: [index_file, chunks_file], each Optional
  providers,  \* RAGSystem.providers, the configured backends in configuration order
  pc,         \* position of the running call: "idle", "dispatch", "returned", "raised"
  err,        \* the exception the last call raised ("" when it raised none)
  op,         \* the operation that ran last: "none", "build", "load", "search", "query",
              \* "compare"
  hits,       \* what the last search appended to `results`, with the row index it used
  kArg,       \* the k of the last search
  requested,  \* process_query's provider_name argument (Optional[str])
  context,    \* retrieve_context's context: the blocks in order
  sources,    \* retrieve_context's source list
  toUse,      \* process_query's providers_to_use (positions in `providers`)
  pos,        \* the loop position in providers_to_use
  callLog,    \* every chat call made by the running query: <<position, outcome>>
  responses,  \* process_query's `responses` list
  ret         \* Optional: the list process_query returned, or the dict
              \* compare_providers returned

ragVars == <<index, chunks, disk, providers, pc, err, op, hits, kArg, requested,
             context, sources, toUse, pos, callLog, responses, ret>>

\* the chunker's state
VARIABLES
  text,          \* chunk_text's text argument
  chunk_size,    \* DocumentIngester.chunk_size
  chunk_overlap, \* DocumentIngester.chunk_overlap
  cpc,           \* position in the page's processing: "idle", "loop", "done", "appended"
  start,         \* the window start of the next iteration
  outChunks,     \* the list chunk_text builds and returns
  windows,       \* per iteration so far: its start, its cut `end` and whether its chunk was kept
  iter,          \* the number of iterations so far
  page,          \* process_documents' page_num of the page being chunked
  all_chunks     \* process_documents' all_chunks

chunkVars == <<text, chunk_size, chunk_overlap, cpc, start, outChunks, windows, iter,
               page, all_chunks>>

\* the last call of one of the pure helpers: which one, its arguments, its result
VARIABLES fn, fnArgs, fnResult

fnVars == <<fn, fnArgs, fnResult>>

\* the state of RAGEvaluator.run_full_evaluation
VARIABLES
  eval_df,          \* the rows of the evaluation file
  epc,              \* position of the run: "idle", "loop", "done", "raised"
  eerr,             \* the exception the run raised ("" when none)
  eidx,             \* the 0-based index of the next row
  all_results,      \* the detailed records
  provider_results, \* dict: provider name -> its records
  summary,          \* Optional: the per-provider summary
  produced,         \* per row processed so far: the provider names of the responses
                    \* process_query returned for it
  failures          \* the number of backend calls that failed in the run so far

evalVars == <<eval_df, epc, eerr, eidx, all_results, provider_results, summary,
              produced, failures>>

\* the state of the application's entry point (app.py, main)
VARIABLES
  mode,          \* args.mode: "interactive", "batch" or "build-index"
  openai_key,    \* os.getenv('OPENAI_API_KEY'): Optional[str], kept as "" or "key"
  deepseek_key,  \* os.getenv('DEEPSEEK_API_KEY')
  mpc,           \* position of main: "start", "providers", "rag", "interactive",
                 \* "batch", "exit0", "fatal"
  merr,          \* the exception main caught before sys.exit(1) ("" when none)
  app_providers, \* chatbot.providers
  rag_system,    \* chatbot.rag_system: None or <<providers>>
  handled,       \* the number of queries handed to the RAG system so far
  last_input     \* the kind of the last line read by the interactive loop

mainVars == <<mode, openai_key, deepseek_key, mpc, merr, app_providers, rag_system,
              handled, last_input>>

\* what an operation of one component leaves alone
exceptRag == <<chunkVars, fnVars, evalVars, mainVars>>
exceptChunk == <<ragVars, fnVars, evalVars, mainVars>>
exceptFn == <<ragVars, chunkVars, evalVars, mainVars>>
exceptEval == <<ragVars, chunkVars, fnVars, mainVars>>
exceptMain == <<ragVars, chunkVars, fnVars, evalVars>>

None == <<>>
Some(x) == <<x>>

Min(a, b) == IF a < b THEN a ELSE b
Max(a, b) == IF a > b THEN a ELSE b

(***************************************************************************)
(* Strings whose characters the code inspects.                             *)
(***************************************************************************)
UpperChars == <<"A","B","C","D","E","F","G","H","I","J","K","L","M",
                "N","O","P","Q","R","S","T","U","V","W","X","Y","Z",
                "Á","É","Í","Ó","Ú","Ñ">>
LowerChars == <<"a","b","c","d","e","f","g","h","i","j","k","l","m",
                "n","o","p","q","r","s","t","u","v","w","x","y","z",
                "á","é","í","ó","ú","ñ">>

LowerChar(c) ==
  IF \E i \in DOMAIN UpperChars : UpperChars[i] = c
    THEN LowerChars[CHOOSE i \in DOMAIN UpperChars : UpperChars[i] = c]
    ELSE c

\* a comparison that keeps the case
LowerKeepsCase(s) == s

\* str.lower()
Lower(s) == [i \in 1..Len(s) |-> LowerChar(s[i])]

\* `a in b` for two str
Contains(b, a) ==
  \E off \in 0..(Len(b) - Len(a)) : \A i \in 1..Len(a) : b[off + i] = a[i]

(***************************************************************************)
(* Segments (DocumentChunk).  A content string is kept as its identity and *)
(* its length; Prefix is the slice content[:n].                            *)
(***************************************************************************)
Str(t, n) == [text |-> t, len |-> n]
Prefix(c, n) == [text |-> c.text, len |-> Min(c.len, n)]

DocumentChunk(d, t, c, p, id, u, v) ==
  [doc_id |-> d, title |-> t, content |-> c, page |-> p, chunk_id |-> id,
   url |-> u, vigencia |-> v]

SegA == DocumentChunk("DOC1", "Reglamento de Matricula", Str("c1", 120), 1,
                      "DOC1_p1_c0", "url1", "2024")
SegB == DocumentChunk("DOC1", "Reglamento de Matricula", Str("c2", 300), 2,
                      "DOC1_p2_c0", "url1", "2024")
SegC == DocumentChunk("DOC2", "Calendario Academico", Str("c3", 450), 1,
                      "DOC2_p1_c0", "url2", "2023")
\* the segments the bounded segment lists are drawn from
Segments == {SegA, SegB}

\* the largest segment list handed to a build
MaxChunks == 2
\* the largest k of a direct search call
MaxK == 3

\* a corpus of as many segments as retrieve_context asks for
Corpus == <<SegA, SegB, SegC, SegA, SegB, SegC, SegA, SegB>>

ChunkLists == UNION {[1..n -> Segments] : n \in 0..MaxChunks} \cup {Corpus}

(***************************************************************************)
(* The embedding provider and the FAISS flat inner-product index.  The     *)
(* encoder is a fixed function of the text; the texts of the model encode  *)
(* to axis-aligned vectors, whose L2 norm is the absolute value of their   *)
(* one non-zero component, so that normalisation and the inner product are *)
(* exact over the integers.                                                *)
(***************************************************************************)
Abs(x) == IF x < 0 THEN -x ELSE x

\* SentenceTransformer.encode on a segment's content
Encode(c) ==
  CASE c.text = "c1" -> <<2, 0>>
    [] c.text = "c2" -> <<0, 3>>
    [] OTHER         -> <<-1, 0>>

\* the encodings of the (rewritten) queries
QueryEncodings == {<<2, 0>>, <<0, -2>>}

\* faiss.normalize_L2 on one row: a zero row is left alone
NormalizeL2(v) ==
  LET norm == Abs(v[1]) + Abs(v[2])
  IN  IF norm = 0 THEN v ELSE <<v[1] \div norm, v[2] \div norm>>

InnerProduct(a, b) == a[1] * b[1] + a[2] * b[2]

\* the score FAISS reports in a result slot it could not fill (-FLT_MAX for an
\* inner-product index); every cosine of the model is above it
NoScore == -2
\* the label FAISS reports in a result slot it could not fill
NoLabel == -1

\* the row FAISS ranks first among the rows of S: highest inner product, the
\* earlier row on equal scores
BestRow(vecs, q, S) ==
  CHOOSE i \in S : \A j \in S :
    \/ InnerProduct(vecs[i + 1], q) > InnerProduct(vecs[j + 1], q)
    \/ /\ InnerProduct(vecs[i + 1], q) = InnerProduct(vecs[j + 1], q)
       /\ i <= j

RECURSIVE Ranking(_, _, _)
Ranking(vecs, q, S) ==
  IF S = {} THEN <<>>
  ELSE LET b == BestRow(vecs, q, S)
       IN  <<b>> \o Ranking(vecs, q, S \ {b})

\* index.search(query_embedding, k): exactly k (score, label) slots, the best
\* min(k, ntotal) rows by descending score and then unfilled slots
IndexSearch(vecs, q, k) ==
  LET n == Len(vecs)
      order == Ranking(vecs, q, 0..(n - 1))
  IN  [s \in 1..k |->
         IF s <= n
           THEN [score |-> InnerProduct(vecs[order[s] + 1], q), idx |-> order[s]]
           ELSE [score |-> NoScore, idx |-> NoLabel]]

\* Python's list[i]: a negative i counts from the end
PyItem(list, i) == IF i < 0 THEN list[Len(list) + i + 1] ELSE list[i + 1]

\* create_embeddings followed by normalize_L2 over every row (build_faiss_index)
BuildFaissIndex(cs) == [i \in 1..Len(cs) |-> NormalizeL2(Encode(cs[i].content))]

\* the rows save_index writes, one dict per chunk
SaveRows(cs) ==
  [i \in 1..Len(cs) |->
     [doc_id |-> cs[i].doc_id, title |-> cs[i].title, content |-> cs[i].content,
      page |-> cs[i].page, chunk_id |-> cs[i].chunk_id, url |-> cs[i].url,
      vigencia |-> cs[i].vigencia]]

\* a load that rebuilds the chunks from the last row to the first
LoadChunksReversed(rows) ==
  [i \in 1..Len(rows) |->
     LET r == rows[Len(rows) + 1 - i]
     IN  DocumentChunk(r.doc_id, r.title, r.content, r.page, r.chunk_id, r.url,
                       r.vigencia)]

\* the chunks load_index rebuilds from the rows
LoadChunks(rows) ==
  [i \in 1..Len(rows) |->
     DocumentChunk(rows[i].doc_id, rows[i].title, rows[i].content, rows[i].page,
                   rows[i].chunk_id, rows[i].url, rows[i].vigencia)]

\* Python's list[i] raises IndexError outside -len .. len-1
PyInRange(list, i) == -Len(list) <= i /\ i < Len(list)

\* a test that stops one row short
ValidIndexOffByOne(i, cs) == i < Len(cs) - 1

\* the test search makes on a slot's label before it reads chunks[label]
ValidIndex(i, cs) == i < Len(cs)

\* the loop of EmbeddingSystem.search over the slots FAISS returned: a slot is
\* kept when its label passes the test, and then chunks[label] is read.  Each
\* result also records the label that was used to read the chunk.
RECURSIVE SearchResults(_, _)
SearchResults(cs, slots) ==
  IF slots = <<>> THEN <<>>
  ELSE LET s == Head(slots)
       IN  (IF ValidIndex(s.idx, cs)
              THEN <<[chunk |-> PyItem(cs, s.idx), score |-> s.score, idx |-> s.idx]>>
              ELSE <<>>)
           \o SearchResults(cs, Tail(slots))

\* the loop raises IndexError when a label passes the test and is out of range
SearchRaises(cs, slots) ==
  \E i \in 1..Len(slots) : ValidIndex(slots[i].idx, cs) /\ ~PyInRange(cs, slots[i].idx)

(***************************************************************************)
(* Generation backends (providers/*.py).                                   *)
(***************************************************************************)
ChatGPTStr == <<"C","h","a","t","G","P","T">>
DeepSeekStr == <<"D","e","e","p","S","e","e","k">>
GeminiStr == <<"G","e","m","i","n","i">>
Gpt4Str == <<"g","p","t","-","4">>
DeepseekChatStr == <<"d","e","e","p","s","e","e","k","-","c","h","a","t">>
GeminiFlashStr == <<"g","e","m","i","n","i","-","1",".","5","-","f","l","a","s","h">>
SystemStr == <<"S","y","s","t","e","m">>

Provider(cls, model) == [cls |-> cls, model |-> model]

GPT4 == Provider("ChatGPT", "gpt-4")
DS == Provider("DeepSeek", "deepseek-chat")
GEM == Provider("Gemini", "gemini-1.5-flash")
ProviderPool == {GPT4, DS, GEM}

ClsStr(cls) ==
  CASE cls = "ChatGPT" -> ChatGPTStr
    [] cls = "DeepSeek" -> DeepSeekStr
    [] OTHER -> GeminiStr

ModelStr(model) ==
  CASE model = "gpt-4" -> Gpt4Str
    [] model = "deepseek-chat" -> DeepseekChatStr
    [] OTHER -> GeminiFlashStr

\* the `name` property: f"<Class> ({self.model})"
Name(p) == ClsStr(p.cls) \o <<" ", "(">> \o ModelStr(p.model) \o <<")">>

\* the PRICING table of each class, per 1K tokens in units of 1e-5 USD; <<>>
\* when the class's table has no entry for the model
Pricing(p) ==
  CASE p.cls = "ChatGPT" /\ p.model = "gpt-4" -> Some([input |-> 3000, output |-> 6000])
    [] p.cls = "ChatGPT" /\ p.model = "gpt-4-turbo" -> Some([input |-> 1000, output |-> 3000])
    [] p.cls = "ChatGPT" /\ p.model = "gpt-3.5-turbo" -> Some([input |-> 100, output |-> 200])
    [] p.cls = "DeepSeek" /\ p.model = "deepseek-chat" -> Some([input |-> 14, output |-> 28])
    [] p.cls = "DeepSeek" /\ p.model = "deepseek-reasoner" -> Some([input |-> 55, output |-> 220])
    [] p.cls = "Gemini" /\ p.model = "gemini-1.5-flash" -> Some([input |-> 15, output |-> 60])
    [] p.cls = "Gemini" /\ p.model = "gemini-1.5-pro" -> Some([input |-> 350, output |-> 1050])
    [] p.cls = "Gemini" /\ p.model = "gemini-pro" -> Some([input |-> 50, output |-> 150])
    [] OTHER -> None

\* an estimate that prices the output tokens at the input rate
EstimateCostInputRate(p, input_tokens, output_tokens) ==
  IF Pricing(p) # None
    THEN input_tokens * Pricing(p)[1].input + output_tokens * Pricing(p)[1].input
    ELSE 0

\* estimate_cost, in units of 1e-8 USD: (tokens / 1000) * price per 1K tokens
EstimateCost(p, input_tokens, output_tokens) ==
  IF Pricing(p) # None
    THEN input_tokens * Pricing(p)[1].input + output_tokens * Pricing(p)[1].output
    ELSE 0

\* one remote call: the number of words of the prompt sent, and what the
\* API does: it raises, or it answers with a content that is None, empty or a
\* text, and with a usage block or without one
Exchange(kind, content, usage, prompt_words) ==
  [kind |-> kind, content |-> content, usage |-> usage, prompt_words |-> prompt_words]

\* the usage block of a completion, whose total the API reports as the sum of
\* its two counts
UsageBlock(prompt_tokens, completion_tokens) ==
  [prompt_tokens |-> prompt_tokens, completion_tokens |-> completion_tokens,
   total_tokens |-> prompt_tokens + completion_tokens]

Usage == UsageBlock(10, 5)

Answer == "Segun el [Reglamento, pagina 1] ..."
\* the number of words of the prompt of the router's calls
PromptWords == 10

ApiOutcomes ==
  {Exchange("exception", None, None, PromptWords)}
  \cup {Exchange("completion", c, Some(Usage), PromptWords) :
          c \in {None, Some(""), Some(Answer)}}

\* len(text.split()) of the response texts of the model
WordsIn(t) ==
  CASE t = "" -> 0
    [] t = "una" -> 1
    [] t = "una dos" -> 2
    [] t = "una dos tres" -> 3
    [] OTHER -> 6

\* int(words * 1.3): Gemini's estimate of the tokens of a text, the product
\* taken exactly
EstimatedTokens(words) == (13 * words) \div 10

\* Gemini's counts: each count is truncated by itself, and the total is the
\* truncated sum of the two products
GeminiTokens(out) ==
  LET answer_words == IF out.content \notin {None, Some("")} THEN WordsIn(out.content[1]) ELSE 0
  IN  [input_tokens |-> EstimatedTokens(out.prompt_words),
       output_tokens |-> EstimatedTokens(answer_words),
       total_tokens |-> (13 * out.prompt_words + 13 * answer_words) \div 10]

\* the counts of ChatGPT and DeepSeek: the three numbers of the usage block,
\* or zeros without one
UsageTokens(out) ==
  IF out.usage = None
    THEN [input_tokens |-> 0, output_tokens |-> 0, total_tokens |-> 0]
    ELSE [input_tokens |-> out.usage[1].prompt_tokens,
          output_tokens |-> out.usage[1].completion_tokens,
          total_tokens |-> out.usage[1].total_tokens]

\* chat(): the dict it returns.  Every exception is caught and turned into a
\* dict with an 'error' key; Gemini's response.text raises when the response
\* holds no text part
Chat(p, out) ==
  IF out.kind = "exception" \/ (p.cls = "Gemini" /\ out.content = None)
    THEN [error |-> "exception", latency |-> 1, cost |-> 0]
    ELSE LET t == IF p.cls = "Gemini" THEN GeminiTokens(out) ELSE UsageTokens(out)
         IN  [response |-> out.content,
              input_tokens |-> t.input_tokens,
              output_tokens |-> t.output_tokens,
              total_tokens |-> t.total_tokens,
              latency |-> 1,
              cost |-> EstimateCost(p, t.input_tokens, t.output_tokens),
              model |-> p.model]

(***************************************************************************)
(* The retriever and the answer router (rag/rag_system.py).                *)
(***************************************************************************)
\* the default k of retrieve_context
RetrieveK == 8
\* the length the content preview of a source is cut to
PreviewLen == 300

AbstentionMessage == "No encontre informacion sobre esto en la normativa UFRO disponible. Te sugiero contactar a la Direccion de Asuntos Estudiantiles o la Secretaria Academica."

RAGResponse(answer, srcs, name, tokens, latency, cost) ==
  [answer |-> answer, sources |-> srcs, provider_name |-> name,
   tokens_used |-> tokens, latency |-> latency, cost |-> cost]

\* retrieve_context past the empty-results return: one block and one source per result
ContextParts(results) ==
  [i \in 1..Len(results) |->
     [title |-> results[i].chunk.title, page |-> results[i].chunk.page,
      content |-> results[i].chunk.content]]

SourcesOf(results) ==
  [i \in 1..Len(results) |->
     [title |-> results[i].chunk.title,
      page |-> results[i].chunk.page,
      content |-> [head |-> Prefix(results[i].chunk.content, PreviewLen), tail |-> "..."],
      doc_id |-> results[i].chunk.doc_id,
      score |-> results[i].score,
      url |-> results[i].chunk.url,
      vigencia |-> results[i].chunk.vigencia]]

\* a should_abstain that never abstains
ShouldAbstainNever(srcs) == None

\* should_abstain: the message when there is no source, None otherwise
ShouldAbstain(srcs) == IF srcs = <<>> THEN Some(AbstentionMessage) ELSE None

\* Python truthiness of an Optional[str] whose characters are kept
Truthy(optStr) == optStr # None /\ optStr[1] # <<>>

RECURSIVE FilterPositions(_, _, _)
FilterPositions(ps, name, i) ==
  IF i > Len(ps) THEN <<>>
  ELSE (IF Contains(Lower(Name(ps[i])), Lower(name)) THEN <<i>> ELSE <<>>)
       \o FilterPositions(ps, name, i + 1)

\* providers_to_use, as positions in self.providers
ProvidersToUse(ps, req) ==
  IF Truthy(req) THEN FilterPositions(ps, req[1], 1)
  ELSE [i \in 1..Len(ps) |-> i]

\* the provider_name arguments of the model
RequestedNames ==
  {None, Some(<<>>),
   Some(<<"C","H","A","T">>),
   Some(<<"g","e","m","i","n","i">>)}

\* the largest number of configured backends
MaxProviders == 2
ProviderConfigs == UNION {[1..n -> ProviderPool] : n \in 0..MaxProviders}

(***************************************************************************)
(* Operations of the index and the router.                                 *)
(***************************************************************************)
\* a search that answers with no results where it has no index
SearchOutcomeUnchecked(idx, cs, q, k) ==
  IF idx = None
    THEN [raised |-> "", results |-> <<>>]
    ELSE LET slots == IndexSearch(idx[1], NormalizeL2(q), k)
         IN  IF SearchRaises(cs, slots)
               THEN [raised |-> "IndexError", results |-> <<>>]
               ELSE [raised |-> "", results |-> SearchResults(cs, slots)]

\* EmbeddingSystem.search: the not-loaded check, the FAISS search on the
\* normalised query, and the loop over its slots
SearchOutcome(idx, cs, q, k) ==
  IF idx = None
    THEN [raised |-> "ValueError", results |-> <<>>]
    ELSE LET slots == IndexSearch(idx[1], NormalizeL2(q), k)
         IN  IF SearchRaises(cs, slots)
               THEN [raised |-> "IndexError", results |-> <<>>]
               ELSE [raised |-> "", results |-> SearchResults(cs, slots)]

\* a loop body that puts the newest response first
CollectNewestFirst(resps, p, result, srcs) ==
  IF "error" \in DOMAIN result
    THEN resps
    ELSE <<RAGResponse(result.response, srcs, Name(p), result.total_tokens,
                       result.latency, result.cost)>> \o resps

\* the body of process_query's loop after the chat call: an error result is
\* skipped, any other result is appended as a RAGResponse
Collect(resps, p, result, srcs) ==
  IF "error" \in DOMAIN result
    THEN resps
    ELSE Append(resps, RAGResponse(result.response, srcs, Name(p), result.total_tokens,
                                   result.latency, result.cost))

\* the abstention response of process_query
SystemResponse(message) == RAGResponse(Some(message), <<>>, SystemStr, 0, 0, 0)

NoQuery ==
  /\ requested' = None
  /\ context' = <<>>
  /\ sources' = <<>>
  /\ toUse' = <<>>
  /\ pos' = 1
  /\ callLog' = <<>>
  /\ responses' = <<>>
  /\ ret' = None

\* build_and_save_index(chunks, ...).  The encoder returns an array without a
\* second dimension for an empty list, so build_faiss_index raises on
\* embeddings.shape[1] before anything is saved or assigned.
BuildAndSaveIndex(cs) ==
  /\ UNCHANGED exceptRag
  /\ pc = "idle"
  /\ op' = "build"
  /\ hits' = <<>>
  /\ kArg' = 0
  /\ NoQuery
  /\ UNCHANGED providers
  /\ IF cs = <<>>
       THEN /\ pc' = "raised"
            /\ err' = "IndexError"
            /\ UNCHANGED <<index, chunks, disk>>
       ELSE /\ disk' = [index_file |-> Some(BuildFaissIndex(cs)),
                        chunks_file |-> Some(SaveRows(cs))]
            /\ index' = Some(BuildFaissIndex(cs))
            /\ chunks' = cs
            /\ pc' = "returned"
            /\ err' = ""

\* load_index(index_path, chunks_path).  Reading a missing index file raises
\* before self.index is assigned; reading a missing chunks file raises after
\* self.index is assigned and before self.chunks is.
LoadIndex ==
  /\ UNCHANGED exceptRag
  /\ pc = "idle"
  /\ op' = "load"
  /\ hits' = <<>>
  /\ kArg' = 0
  /\ NoQuery
  /\ UNCHANGED <<providers, disk>>
  /\ IF disk.index_file = None
       THEN /\ pc' = "raised"
            /\ err' = "IOError"
            /\ UNCHANGED <<index, chunks>>
       ELSE /\ index' = Some(disk.index_file[1])
            /\ IF disk.chunks_file = None
                 THEN /\ pc' = "raised"
                      /\ err' = "IOError"
                      /\ UNCHANGED chunks
                 ELSE /\ chunks' = LoadChunks(disk.chunks_file[1])
                      /\ pc' = "returned"
                      /\ err' = ""

\* search(query, k) called directly
Search(q, k) ==
  /\ UNCHANGED exceptRag
  /\ pc = "idle"
  /\ op' = "search"
  /\ kArg' = k
  /\ NoQuery
  /\ UNCHANGED <<index, chunks, disk, providers>>
  /\ LET so == SearchOutcome(index, chunks, q, k)
     IN  /\ hits' = so.results
         /\ err' = so.raised
         /\ pc' = IF so.raised # "" THEN "raised" ELSE "returned"

\* a dict that keeps the first response of each name
ToDictKeepFirst(resps) ==
  [n \in {resps[i].provider_name : i \in 1..Len(resps)} |->
     resps[CHOOSE i \in 1..Len(resps) :
             /\ resps[i].provider_name = n
             /\ \A j \in 1..Len(resps) : resps[j].provider_name = n => i <= j]]

\* {response.provider_name: response for response in responses}: a later
\* response takes the place of an earlier one of the same name
ToDict(resps) ==
  [n \in {resps[i].provider_name : i \in 1..Len(resps)} |->
     resps[CHOOSE i \in 1..Len(resps) :
             /\ resps[i].provider_name = n
             /\ \A j \in 1..Len(resps) : resps[j].provider_name = n => j <= i]]

\* what the running operation hands back for the list process_query
\* returns: the list itself, or compare_providers' dict of it
Returned(opName, resps) == IF opName = "compare" THEN ToDict(resps) ELSE resps

\* process_query(query, provider_name) up to its loop: retrieval, the
\* abstention decision and the choice of providers_to_use; opName tells
\* whether it was called directly or by compare_providers
StartQuery(q, req, opName) ==
  /\ UNCHANGED exceptRag
  /\ pc = "idle"
  /\ op' = opName
  /\ kArg' = RetrieveK
  /\ requested' = req
  /\ callLog' = <<>>
  /\ pos' = 1
  /\ UNCHANGED <<index, chunks, disk, providers>>
  /\ LET so == SearchOutcome(index, chunks, q, RetrieveK)
         results == so.results
         srcs == IF results = <<>> THEN <<>> ELSE SourcesOf(results)
         abstention == ShouldAbstain(srcs)
     IN  /\ hits' = results
         /\ err' = so.raised
         /\ IF so.raised # ""
              THEN /\ pc' = "raised"
                   /\ context' = <<>>
                   /\ sources' = <<>>
                   /\ toUse' = <<>>
                   /\ responses' = <<>>
                   /\ ret' = None
              ELSE /\ context' = (IF results = <<>> THEN <<>> ELSE ContextParts(results))
                   /\ sources' = srcs
                   /\ IF abstention # None
                        THEN /\ pc' = "returned"
                             /\ toUse' = <<>>
                             /\ responses' = (IF opName = "compare"
                                                THEN <<SystemResponse(abstention[1])>>
                                                ELSE <<>>)
                             /\ ret' = Some(Returned(opName, <<SystemResponse(abstention[1])>>))
                        ELSE /\ pc' = "dispatch"
                             /\ toUse' = ProvidersToUse(providers, req)
                             /\ responses' = <<>>
                             /\ ret' = None

\* process_query(query, provider_name) called directly
ProcessQuery(q, req) == StartQuery(q, req, "query")

\* compare_providers(query): process_query(query) on all backends
CompareProviders(q) == StartQuery(q, None, "compare")

\* one iteration of process_query's loop: generate_response on the next
\* provider, whose remote call ends in `out`
CallProvider(out) ==
  /\ UNCHANGED exceptRag
  /\ pc = "dispatch"
  /\ pos <= Len(toUse)
  /\ LET p == providers[toUse[pos]]
     IN  /\ callLog' = Append(callLog, [at |-> toUse[pos], out |-> out])
         /\ responses' = Collect(responses, p, Chat(p, out), sources)
  /\ pos' = pos + 1
  /\ UNCHANGED <<index, chunks, disk, providers, pc, err, op, hits, kArg, requested,
                 context, sources, toUse, ret>>

\* the loop is over: return responses, which compare_providers turns into
\* its dict
Return ==
  /\ UNCHANGED exceptRag
  /\ pc = "dispatch"
  /\ pos > Len(toUse)
  /\ ret' = Some(Returned(op, responses))
  /\ pc' = "returned"
  /\ UNCHANGED <<index, chunks, disk, providers, err, op, hits, kArg, requested,
                 context, sources, toUse, pos, callLog, responses>>

\* the caller takes the returned value or the exception and goes on to its
\* next call
Resume ==
  /\ UNCHANGED exceptRag
  /\ pc \in {"returned", "raised"}
  /\ pc' = "idle"
  /\ err' = ""
  /\ op' = "none"
  /\ hits' = <<>>
  /\ kArg' = 0
  /\ NoQuery
  /\ UNCHANGED <<index, chunks, disk, providers>>

(***************************************************************************)
(* The chunker (scripts/ingest_documents.py).  A page text is the sequence *)
(* of its characters; positions are 0-based as in the code.                *)
(***************************************************************************)
\* chunks of at most this many characters are skipped by the loop
MinChunkLen == 50
\* a boundary is accepted when it lies past BreakNum/BreakDen of chunk_size
BreakNum == 6
BreakDen == 10

IsSpace(c) == c = " "

\* s[a:b]: a negative bound counts from the end, both bounds are clamped
PySlice(s, a, b) ==
  LET lo == IF a < 0 THEN Max(Len(s) + a, 0) ELSE Min(a, Len(s))
      hi == IF b < 0 THEN Max(Len(s) + b, 0) ELSE Min(b, Len(s))
  IN  IF lo >= hi THEN <<>> ELSE SubSeq(s, lo + 1, hi)

\* the number of whitespace characters at the front and at the back of s
LeadingSpaces(s) ==
  IF \A i \in 1..Len(s) : IsSpace(s[i]) THEN Len(s)
  ELSE (CHOOSE i \in 1..Len(s) : ~IsSpace(s[i]) /\ \A j \in 1..(i - 1) : IsSpace(s[j])) - 1

TrailingSpaces(s) ==
  IF \A i \in 1..Len(s) : IsSpace(s[i]) THEN Len(s)
  ELSE Len(s) - (CHOOSE i \in 1..Len(s) : ~IsSpace(s[i]) /\ \A j \in (i + 1)..Len(s) : IsSpace(s[j]))

\* str.strip()
Strip(s) ==
  IF \A i \in 1..Len(s) : IsSpace(s[i]) THEN <<>>
  ELSE SubSeq(s, LeadingSpaces(s) + 1, Len(s) - TrailingSpaces(s))

\* str.rfind(sub): the highest 0-based position where sub occurs, or -1
RFind(s, sub) ==
  LET occ == {i \in 0..(Len(s) - Len(sub)) : \A j \in 1..Len(sub) : s[i + j] = sub[j]}
  IN  IF occ = {} THEN -1 ELSE CHOOSE i \in occ : \A j \in occ : j <= i

\* the boundary markers in the order of break_points
BreakMarkers ==
  << <<".", " ">>, <<"?", " ">>, <<"!", " ">>, <<":", " ">>, <<";", " ">>,
     <<",", " ">>, <<" ">> >>

BreakPoints(window) == [m \in 1..Len(BreakMarkers) |-> RFind(window, BreakMarkers[m])]

\* bp > self.chunk_size * 0.6
PastThreshold(bp, size) == BreakDen * bp > BreakNum * size

\* a choice of the break point that lies furthest into the window, whatever
\* its kind
BestBreakLatest(window, size) ==
  LET bps == BreakPoints(window)
      ok == {m \in 1..Len(bps) : PastThreshold(bps[m], size)}
  IN  IF ok = {} THEN -1
      ELSE bps[CHOOSE m \in ok : \A n \in ok : bps[n] <= bps[m]] + 1

\* best_break: one past the first break point, in priority order, that lies
\* past the threshold; -1 when there is none
BestBreak(window, size) ==
  LET bps == BreakPoints(window)
      ok == {m \in 1..Len(bps) : PastThreshold(bps[m], size)}
  IN  IF ok = {} THEN -1
      ELSE bps[CHOOSE m \in ok : \A n \in ok : m <= n] + 1

\* `end` of the iteration that starts at s
CutEnd(t, s, size) ==
  LET end == s + size
  IN  IF end < Len(t)
        THEN LET bb == BestBreak(PySlice(t, s, end), size)
             IN  IF bb > 0 THEN s + bb ELSE end
        ELSE end

\* the test a stripped chunk passes to be appended
KeepChunk(chunk) == chunk # <<>> /\ Len(chunk) > MinChunkLen

\* chunk_text up to its loop: a text that fits in chunk_size is returned as
\* the only chunk
ChunkText ==
  /\ UNCHANGED exceptChunk
  /\ cpc = "idle"
  /\ IF Len(text) <= chunk_size
       THEN /\ outChunks' = <<text>>
            /\ cpc' = "done"
       ELSE /\ outChunks' = <<>>
            /\ cpc' = "loop"
  /\ start' = 0
  /\ windows' = <<>>
  /\ iter' = 0
  /\ UNCHANGED <<text, chunk_size, chunk_overlap, page, all_chunks>>

\* the largest number of loop iterations followed
MaxIter == 12

\* one iteration of chunk_text's loop
ChunkStep ==
  /\ UNCHANGED exceptChunk
  /\ cpc = "loop"
  /\ iter < MaxIter
  /\ LET end == CutEnd(text, start, chunk_size)
         chunk == Strip(PySlice(text, start, end))
         next == end - chunk_overlap
     IN  /\ outChunks' = IF KeepChunk(chunk) THEN Append(outChunks, chunk) ELSE outChunks
         /\ windows' = Append(windows, [start |-> start, end |-> end, kept |-> KeepChunk(chunk)])
         /\ start' = next
         /\ cpc' = IF next >= Len(text) THEN "done" ELSE "loop"
  /\ iter' = iter + 1
  /\ UNCHANGED <<text, chunk_size, chunk_overlap, page, all_chunks>>

\* the manifest row of the document being ingested
ManifestRow ==
  [doc_id |-> "DOC1", title |-> "Reglamento de Matricula", url |-> "url1",
   vigencia |-> "2024"]

\* an id that counts the chunks of a page from one
ChunkIdFromOne(doc_id, page_num, chunk_idx) ==
  <<doc_id, "_p", page_num, "_c", chunk_idx + 1>>

\* f"{row['doc_id']}_p{page_num}_c{chunk_idx}", kept as its parts
ChunkId(doc_id, page_num, chunk_idx) == <<doc_id, "_p", page_num, "_c", chunk_idx>>

\* DocumentChunk objects whose index runs on through the whole document
PageChunksRunningIndex(row, page_num, cs) ==
  [i \in 1..Len(cs) |->
     DocumentChunk(row.doc_id, row.title, cs[i], page_num,
                   ChunkId(row.doc_id, page_num, Len(all_chunks) + i - 1), row.url,
                   row.vigencia)]

\* the DocumentChunk objects process_documents makes of the chunks of one
\* page: chunk_idx is the position in the list chunk_text returned
PageChunks(row, page_num, cs) ==
  [i \in 1..Len(cs) |->
     DocumentChunk(row.doc_id, row.title, cs[i], page_num,
                   ChunkId(row.doc_id, page_num, i - 1), row.url, row.vigencia)]

\* the inner loop of process_documents over the chunks chunk_text returned
\* for the page
AppendPageChunks ==
  /\ UNCHANGED exceptChunk
  /\ cpc = "done"
  /\ all_chunks' = all_chunks \o PageChunks(ManifestRow, page, outChunks)
  /\ cpc' = "appended"
  /\ UNCHANGED <<text, chunk_size, chunk_overlap, start, outChunks, windows, iter, page>>

\* the largest page number of a document
MaxPages == 2

\* process_documents' loop over pages_text goes on to the next (text,
\* page_num) pair: the page numbers of a document increase, the pages whose
\* text is empty having been left out by the extraction
NextPage(t) ==
  /\ UNCHANGED exceptChunk
  /\ cpc = "appended"
  /\ \E n \in (page + 1)..MaxPages : page' = n
  /\ text' = t
  /\ cpc' = "idle"
  /\ start' = 0
  /\ outChunks' = <<>>
  /\ windows' = <<>>
  /\ iter' = 0
  /\ UNCHANGED <<chunk_size, chunk_overlap, all_chunks>>

(***************************************************************************)
(* Query rewriting (RAGSystem.rewrite_query).                              *)
(***************************************************************************)
\* the `keywords` dict, in its declaration order
Keywords ==
  << [key |-> <<"m","a","t","r","í","c","u","l","a">>,
      expansion |-> <<"m","a","t","r","i","c","u","l","a"," ","i","n","s","c",
                    "r","i","p","c","i","ó","n">>],
     [key |-> <<"t","i","t","u","l","a","c","i","ó","n">>,
      expansion |-> <<"t","i","t","u","l","a","c","i","o","n"," ","g","r","a",
                    "d","u","a","c","i","ó","n"," ","t","e","s","i","s">>],
     [key |-> <<"a","p","e","l","a","c","i","ó","n">>,
      expansion |-> <<"a","p","e","l","a","c","i","o","n"," ","r","e","c","u",
                    "r","s","o"," ","r","e","c","l","a","m","a","c","i","ó",
                    "n">>],
     [key |-> <<"b","e","n","e","f","i","c","i","o","s">>,
      expansion |-> <<"b","e","n","e","f","i","c","i","o","s"," ","b","e","c",
                    "a","s"," ","a","y","u","d","a","s">>],
     [key |-> <<"c","a","l","e","n","d","a","r","i","o">>,
      expansion |-> <<"c","a","l","e","n","d","a","r","i","o"," ","f","e","c",
                    "h","a","s"," ","a","c","a","d","é","m","i","c","o">>] >>

\* a loop that stops after the first key it finds
RECURSIVE ExpandFirstOnly(_, _)
ExpandFirstOnly(enhanced, i) ==
  IF i > Len(Keywords) THEN enhanced
  ELSE IF Contains(enhanced, Keywords[i].key)
         THEN enhanced \o <<" ">> \o Keywords[i].expansion
         ELSE ExpandFirstOnly(enhanced, i + 1)

\* the loop over keywords.items() from entry i on: the test is made on the
\* string as it has grown so far
RECURSIVE Expand(_, _)
Expand(enhanced, i) ==
  IF i > Len(Keywords) THEN enhanced
  ELSE Expand(IF Contains(enhanced, Keywords[i].key)
                THEN enhanced \o <<" ">> \o Keywords[i].expansion
                ELSE enhanced,
              i + 1)

\* rewrite_query
RewriteQuery(query) == Expand(Strip(Lower(query)), 1)

\* the queries of the model
Queries ==
  { <<>>,
    <<" "," ","M","a","t","r","í","c","u","l","a"," "," ">>,
    <<"M","A","T","R","Í","C","U","L","A"," ","y"," ","C","A","L","E","N","D",
      "A","R","I","O">>,
    <<"c","a","l","e","n","d","a","r","i","o"," ","d","e"," ","t","i","t","u",
      "l","a","c","i","ó","n"," ","y"," ","m","a","t","r","í","c","u","l","a">>,
    <<"m","a","t","r","i","c","u","l","a">>,
    <<"b","e","n","e","f","i","c","i","o","s"," ","y"," ","b","e","n","e","f",
      "i","c","i","o","s">>,
    <<"¿","C","ó","m","o"," ","a","p","e","l","o"," ","u","n","a"," ","n","o",
      "t","a","?">>,
    <<"A","p","e","l","a","c","i","ó","n">> }

(***************************************************************************)
(* The evaluation metrics (eval/evaluator.py).  A float that is a quotient *)
(* of two counts is kept as the pair of the counts.                        *)
(***************************************************************************)
Frac(n, d) == [num |-> n, den |-> d]

\* set(list)
PySet(list) == {list[i] : i \in 1..Len(list)}

\* the doc ids of a source list, as the set the loop collects
CitedSources(srcs) == {srcs[i].doc_id : i \in 1..Len(srcs)}

\* a coverage taken over the expected list with its repetitions
CitationCoverageOverList(srcs, expected_sources) ==
  IF expected_sources = <<>> THEN Frac(1, 1)
  ELSE Frac(Cardinality(CitedSources(srcs) \cap PySet(expected_sources)),
            Len(expected_sources))

\* calculate_citation_coverage(response, expected_sources), srcs being
\* response.sources
CitationCoverage(srcs, expected_sources) ==
  IF expected_sources = <<>> THEN Frac(1, 1)
  ELSE Frac(Cardinality(CitedSources(srcs) \cap PySet(expected_sources)),
            Cardinality(PySet(expected_sources)))

\* a precision that always divides by k
PrecisionOverK(retrieved_sources, expected_sources, k) ==
  IF expected_sources = <<>> \/ retrieved_sources = <<>>
    THEN [raised |-> "", value |-> Frac(0, 1)]
    ELSE LET top_k == PySlice(retrieved_sources, 0, k)
             relevant_retrieved ==
               Cardinality({i \in 1..Len(top_k) : top_k[i].doc_id \in PySet(expected_sources)})
         IN  IF k = 0
               THEN [raised |-> "ZeroDivisionError", value |-> Frac(0, 1)]
               ELSE [raised |-> "", value |-> Frac(relevant_retrieved, k)]

\* calculate_precision_at_k(retrieved_sources, expected_sources, k) for k >= 0
PrecisionAtK(retrieved_sources, expected_sources, k) ==
  IF expected_sources = <<>> \/ retrieved_sources = <<>>
    THEN [raised |-> "", value |-> Frac(0, 1)]
    ELSE LET top_k == PySlice(retrieved_sources, 0, k)
             relevant_retrieved ==
               Cardinality({i \in 1..Len(top_k) : top_k[i].doc_id \in PySet(expected_sources)})
             den == Min(k, Len(top_k))
         IN  IF den = 0
               THEN [raised |-> "ZeroDivisionError", value |-> Frac(0, 1)]
               ELSE [raised |-> "", value |-> Frac(relevant_retrieved, den)]

(***************************************************************************)
(* Calls of the pure helpers on the inputs of the model.                   *)
(***************************************************************************)
\* the model names a backend is configured with: those of the three price
\* tables and one that is in none
ModelNames == {"gpt-4", "gpt-4-turbo", "gpt-3.5-turbo", "deepseek-chat",
               "deepseek-reasoner", "gemini-1.5-flash", "gemini-1.5-pro",
               "gemini-pro", "other-model"}
PricedProviders == {Provider(cls, model) : cls \in {"ChatGPT", "DeepSeek", "Gemini"},
                                          model \in ModelNames}
\* the largest token count of a call
MaxTokens == 3
TokenCounts == 0..MaxTokens \cup {1000, 1500}

\* the document ids of sources and of expected sources
DocIds == {"DOC1", "DOC2", "DOC3"}
\* the longest source list and the longest expected-sources list
MaxSources == 3
MaxExpected == 2
\* the largest k of a precision-at-k call
MaxPrecisionK == 4
SourceLists == UNION {[1..n -> [doc_id : DocIds]] : n \in 0..MaxSources}
ExpectedLists == UNION {[1..n -> DocIds] : n \in 0..MaxExpected}

RewriteQueryCall(q) ==
  /\ UNCHANGED exceptFn
  /\ fn = "none"
  /\ fn' = "rewrite_query"
  /\ fnArgs' = [query |-> q]
  /\ fnResult' = RewriteQuery(q)

EstimateCostCall(p, i, o) ==
  /\ UNCHANGED exceptFn
  /\ fn = "none"
  /\ fn' = "estimate_cost"
  /\ fnArgs' = [provider |-> p, input_tokens |-> i, output_tokens |-> o]
  /\ fnResult' = EstimateCost(p, i, o)

CitationCoverageCall(srcs, exp) ==
  /\ UNCHANGED exceptFn
  /\ fn = "none"
  /\ fn' = "calculate_citation_coverage"
  /\ fnArgs' = [sources |-> srcs, expected_sources |-> exp]
  /\ fnResult' = CitationCoverage(srcs, exp)

PrecisionAtKCall(srcs, exp, k) ==
  /\ UNCHANGED exceptFn
  /\ fn = "none"
  /\ fn' = "calculate_precision_at_k"
  /\ fnArgs' = [retrieved_sources |-> srcs, expected_sources |-> exp, k |-> k]
  /\ fnResult' = PrecisionAtK(srcs, exp, k)

\* the response texts, the usage blocks and the prompt sizes of the calls made
\* on one backend by itself
AnswerTexts == {"", "una", "una dos", "una dos tres", Answer}
UsageBlocks == {UsageBlock(i, o) : i \in {10, 133}, o \in {0, 5}}
PromptSizes == {3, 10, 103}
Exchanges ==
  {Exchange("exception", None, None, w) : w \in PromptSizes}
  \cup {Exchange("completion", c, u, w) :
          c \in {None} \cup {Some(t) : t \in AnswerTexts},
          u \in {None} \cup {Some(b) : b \in UsageBlocks},
          w \in PromptSizes}

\* provider.chat(messages) and the loop body of process_query that takes its
\* result into the list of responses
ChatCall(p, out) ==
  /\ UNCHANGED exceptFn
  /\ fn = "none"
  /\ fn' = "chat"
  /\ fnArgs' = [provider |-> p, exchange |-> out]
  /\ fnResult' = [result |-> Chat(p, out), responses |-> Collect(<<>>, p, Chat(p, out), <<>>)]

\* the caller takes the result and goes on
TakeResult ==
  /\ UNCHANGED exceptFn
  /\ fn # "none"
  /\ fn' = "none"
  /\ fnArgs' = <<>>
  /\ fnResult' = <<>>

\* no helper call is under way
FnIdle ==
  /\ fn = "none"
  /\ fnArgs = <<>>
  /\ fnResult = <<>>

FnNext ==
  \/ fn = "none" /\ \E q \in Queries : RewriteQueryCall(q)
  \/ fn = "none" /\ \E p \in PricedProviders, i \in TokenCounts, o \in TokenCounts :
                       EstimateCostCall(p, i, o)
  \/ fn = "none" /\ \E srcs \in SourceLists, exp \in ExpectedLists :
                       CitationCoverageCall(srcs, exp)
  \/ fn = "none" /\ \E srcs \in SourceLists, exp \in ExpectedLists, k \in 0..MaxPrecisionK :
                       PrecisionAtKCall(srcs, exp, k)
  \/ fn = "none" /\ \E p \in ProviderPool, out \in Exchanges : ChatCall(p, out)
  \/ TakeResult

(***************************************************************************)
(* The evaluator (eval/evaluator.py, RAGEvaluator).                        *)
(***************************************************************************)
\* process_query(query, provider_name) as one call on the index idx with the
\* segments cs and the backends ps, outs[i] being what the remote call of
\* ps[i] ends in
RECURSIVE Dispatch(_, _, _, _, _, _)
Dispatch(ps, use, outs, srcs, i, resps) ==
  IF i > Len(use) THEN resps
  ELSE Dispatch(ps, use, outs, srcs, i + 1,
                Collect(resps, ps[use[i]], Chat(ps[use[i]], outs[use[i]]), srcs))

ProcessQueryResult(idx, cs, ps, q, req, outs) ==
  LET so == SearchOutcome(idx, cs, q, RetrieveK)
      srcs == IF so.results = <<>> THEN <<>> ELSE SourcesOf(so.results)
      abstention == ShouldAbstain(srcs)
  IN  IF so.raised # "" THEN [raised |-> so.raised, responses |-> <<>>]
      ELSE IF abstention # None
        THEN [raised |-> "", responses |-> <<SystemResponse(abstention[1])>>]
        ELSE [raised |-> "",
              responses |-> Dispatch(ps, ProvidersToUse(ps, req), outs, srcs, 1, <<>>)]

\* len(answer) of the answers of the model
AnswerLen(answer) ==
  CASE answer = Answer -> 120
    [] answer = AbstentionMessage -> 161
    [] OTHER -> 0

\* has_proper_citations: the answer holds a "[title, página n]" citation
HasProperCitations(answer) == answer = Answer

\* "No encontré información" in answer
SaysNotFound(answer) == answer = AbstentionMessage

\* the k calculate_precision_at_k defaults to
DefaultPrecisionK == 5

\* evaluate_response(response, "", expected_sources) with question and
\* expected_sources added by evaluate_single_question; the semantic score is
\* kept in tenths.  Called on a response whose answer is a str.
EvaluateResponse(response, question, expected_sources) ==
  [semantic_similarity |-> IF AnswerLen(response.answer[1]) > 50 THEN 8 ELSE 2,
   citation_coverage |-> CitationCoverage(response.sources, expected_sources),
   precision_at_k |->
     PrecisionAtK(response.sources, expected_sources, DefaultPrecisionK).value,
   has_proper_citations |-> HasProperCitations(response.answer[1]),
   abstained |-> SaysNotFound(response.answer[1]),
   abstention_appropriate |-> Len(response.sources) = 0,
   tokens_used |-> response.tokens_used,
   latency |-> response.latency,
   cost |-> response.cost,
   provider |-> response.provider_name,
   question |-> question,
   expected_sources |-> expected_sources]

\* response_metrics.update({'question_id': idx, 'category': ..., 'difficulty': ...})
WithRowFields(metrics, idx, row) ==
  [f \in DOMAIN metrics \cup {"question_id", "category", "difficulty"} |->
     CASE f = "question_id" -> idx
       [] f = "category" -> row.category
       [] f = "difficulty" -> row.difficulty
       [] OTHER -> metrics[f]]

\* a dict update that starts the provider's list anew
AppendToAnew(results, provider, metrics) ==
  [n \in DOMAIN results \cup {provider} |->
     IF n = provider THEN <<metrics>> ELSE results[n]]

\* provider_results[provider].append(metrics), with the list created on the
\* provider's first record
AppendTo(results, provider, metrics) ==
  [n \in DOMAIN results \cup {provider} |->
     IF n = provider
       THEN (IF n \in DOMAIN results THEN Append(results[n], metrics) ELSE <<metrics>>)
       ELSE results[n]]

\* the loop over result['responses'] of one row
RECURSIVE OrganiseByProvider(_, _, _)
OrganiseByProvider(results, rows, i) ==
  IF i > Len(rows) THEN results
  ELSE OrganiseByProvider(AppendTo(results, rows[i].provider, rows[i]), rows, i + 1)

\* sum(...) over a list of numbers
RECURSIVE SumOf(_)
SumOf(nums) == IF nums = <<>> THEN 0 ELSE Head(nums) + SumOf(Tail(nums))

\* sum(...) over a list of quotients, as one quotient
RECURSIVE FracSumOf(_)
FracSumOf(fracs) ==
  IF fracs = <<>> THEN Frac(0, 1)
  ELSE LET h == Head(fracs)
           t == FracSumOf(Tail(fracs))
       IN  Frac(h.num * t.den + t.num * h.den, h.den * t.den)

\* 1 for True and 0 for False, as sum(1 for r in results if ...) counts
Count(b) == IF b THEN 1 ELSE 0

\* calculate_summary_metrics
CalculateSummary(results) ==
  [n \in {m \in DOMAIN results : results[m] # <<>>} |->
     LET rs == results[n]
         n_questions == Len(rs)
         cov == FracSumOf([i \in 1..Len(rs) |-> rs[i].citation_coverage])
         prec == FracSumOf([i \in 1..Len(rs) |-> rs[i].precision_at_k])
         total_cost == SumOf([i \in 1..Len(rs) |-> rs[i].cost])
     IN  [n_questions |-> n_questions,
          avg_semantic_similarity |->
            Frac(SumOf([i \in 1..Len(rs) |-> rs[i].semantic_similarity]), n_questions),
          avg_citation_coverage |-> Frac(cov.num, cov.den * n_questions),
          avg_precision_at_k |-> Frac(prec.num, prec.den * n_questions),
          citation_rate |->
            Frac(SumOf([i \in 1..Len(rs) |-> Count(rs[i].has_proper_citations)]), n_questions),
          abstention_rate |->
            Frac(SumOf([i \in 1..Len(rs) |-> Count(rs[i].abstained)]), n_questions),
          avg_latency |-> Frac(SumOf([i \in 1..Len(rs) |-> rs[i].latency]), n_questions),
          total_cost |-> total_cost,
          total_tokens |-> SumOf([i \in 1..Len(rs) |-> rs[i].tokens_used]),
          cost_per_question |-> Frac(total_cost, n_questions)]]

\* the largest number of rows of an evaluation file
MaxQuestions == 10
\* the largest number of failing backend calls followed in one run
MaxFailures == 2

\* a cell of the expected_sources column: <<ids>> for a non-empty cell, ids
\* being what split(',') makes of it, and <<>> for an empty cell, which pandas
\* reads as the float NaN
ExpectedCell(i, nanAt) ==
  IF i = nanAt THEN None
  ELSE IF i % 2 = 0 THEN Some(<<"DOC1">>) ELSE Some(<<"DOC1", "DOC2">>)

\* the evaluation file of n rows; row i (0-based) has an empty cell when
\* i = nanAt
EvalRows(n, nanAt) ==
  [j \in 1..n |->
     [question |-> j - 1, expected_sources |-> ExpectedCell(j - 1, nanAt),
      category |-> "matricula", difficulty |-> "facil"]]

\* the evaluation files of the model: complete ones of several lengths, and
\* one whose second row has an empty cell
EvalFiles == {EvalRows(n, -1) : n \in {0, 1, 2, MaxQuestions}} \cup {EvalRows(2, 1)}

\* what the remote call of a backend ends in during an evaluation
EvalOutcomes ==
  {Exchange("exception", None, None, PromptWords),
   Exchange("completion", None, Some(Usage), PromptWords),
   Exchange("completion", Some(Answer), Some(Usage), PromptWords)}

\* the encoding of the (rewritten) questions
QuestionEncoding == <<2, 0>>

\* run_full_evaluation(eval_file) up to its loop
RunFullEvaluation(df) ==
  /\ UNCHANGED exceptEval
  /\ epc = "idle"
  /\ eval_df' = df
  /\ epc' = "loop"
  /\ eerr' = ""
  /\ eidx' = 0
  /\ all_results' = <<>>
  /\ provider_results' = <<>>
  /\ summary' = None
  /\ produced' = <<>>
  /\ failures' = 0

\* one iteration of the loop over eval_df.iterrows(): the row's expected
\* sources, evaluate_single_question on all backends, and the records of its
\* responses.  An empty cell raises at .split, process_query may raise, and
\* evaluate_response raises at len(response.answer) for an answer of None.
EvalQuestion(outs) ==
  /\ UNCHANGED exceptEval
  /\ epc = "loop"
  /\ eidx < Len(eval_df)
  /\ LET row == eval_df[eidx + 1]
         failing == Cardinality({i \in 1..Len(providers) : outs[i].kind = "exception"})
         pq == ProcessQueryResult(index, chunks, providers, QuestionEncoding, None, outs)
         raised ==
           IF row.expected_sources = None THEN "AttributeError"
           ELSE IF pq.raised # "" THEN pq.raised
           ELSE IF \E i \in 1..Len(pq.responses) : pq.responses[i].answer = None
             THEN "TypeError"
           ELSE ""
         rows == [i \in 1..Len(pq.responses) |->
                    WithRowFields(EvaluateResponse(pq.responses[i], row.question,
                                                   row.expected_sources[1]),
                                  eidx, row)]
     IN  /\ failures + failing <= MaxFailures
         /\ IF raised # ""
              THEN /\ epc' = "raised"
                   /\ eerr' = raised
                   /\ UNCHANGED <<eidx, all_results, provider_results, produced, failures>>
              ELSE /\ epc' = "loop"
                   /\ eerr' = ""
                   /\ eidx' = eidx + 1
                   /\ failures' = failures + failing
                   /\ produced' = Append(produced,
                                         [i \in 1..Len(pq.responses) |->
                                            pq.responses[i].provider_name])
                   /\ all_results' = all_results \o rows
                   /\ provider_results' = OrganiseByProvider(provider_results, rows, 1)
  /\ UNCHANGED <<eval_df, summary>>

\* the loop is over: the summary is calculated and the run returns
FinishEvaluation ==
  /\ UNCHANGED exceptEval
  /\ epc = "loop"
  /\ eidx >= Len(eval_df)
  /\ summary' = Some(CalculateSummary(provider_results))
  /\ epc' = "done"
  /\ UNCHANGED <<eval_df, eerr, eidx, all_results, provider_results, produced, failures>>

\* no evaluation has been run
EvalIdle ==
  /\ eval_df = <<>>
  /\ epc = "idle"
  /\ eerr = ""
  /\ eidx = 0
  /\ all_results = <<>>
  /\ provider_results = <<>>
  /\ summary = None
  /\ produced = <<>>
  /\ failures = 0

EvalNext ==
  \/ \E df \in EvalFiles : RunFullEvaluation(df)
  \/ epc = "loop" /\ \E outs \in [1..Len(providers) -> EvalOutcomes] : EvalQuestion(outs)
  \/ FinishEvaluation

(***************************************************************************)
(* The entry point (app.py): main and UFROChatbot's set-up.                *)
(***************************************************************************)
\* Python truthiness of an Optional[str] kept whole
KeySet(key) == key # None /\ key[1] # ""

\* a set-up that accepts an empty backend list
SetupProvidersUnchecked(okey, dkey) ==
  [raised |-> "",
   providers |-> (IF KeySet(okey) THEN <<GPT4>> ELSE <<>>)
                 \o (IF KeySet(dkey) THEN <<DS>> ELSE <<>>)]

\* setup_providers: one backend per key that is set, ChatGPT first, and
\* ValueError when there is none
SetupProvidersResult(okey, dkey) ==
  LET ps == (IF KeySet(okey) THEN <<GPT4>> ELSE <<>>)
            \o (IF KeySet(dkey) THEN <<DS>> ELSE <<>>)
  IN  [raised |-> IF ps = <<>> THEN "ValueError" ELSE "", providers |-> ps]

\* main, modes batch and interactive: chatbot.setup_providers()
SetupProviders ==
  /\ UNCHANGED exceptMain
  /\ mpc = "start"
  /\ mode \in {"interactive", "batch"}
  /\ LET r == SetupProvidersResult(openai_key, deepseek_key)
     IN  /\ app_providers' = r.providers
         /\ merr' = r.raised
         /\ mpc' = IF r.raised # "" THEN "fatal" ELSE "providers"
  /\ UNCHANGED <<mode, openai_key, deepseek_key, rag_system, handled, last_input>>

\* main, modes batch and interactive: chatbot.setup_rag_system(), which loads
\* or builds the index and may raise doing so
SetupRagSystem(raised) ==
  /\ UNCHANGED exceptMain
  /\ mpc = "providers"
  /\ IF raised # ""
       THEN /\ mpc' = "fatal"
            /\ merr' = raised
            /\ UNCHANGED rag_system
       ELSE /\ mpc' = "rag"
            /\ merr' = ""
            /\ rag_system' = Some(app_providers)
  /\ UNCHANGED <<mode, openai_key, deepseek_key, app_providers, handled, last_input>>

\* main, mode build-index: chatbot.build_index(), without any backend set-up
BuildIndexMode(raised) ==
  /\ UNCHANGED exceptMain
  /\ mpc = "start"
  /\ mode = "build-index"
  /\ merr' = raised
  /\ mpc' = IF raised # "" THEN "fatal" ELSE "exit0"
  /\ UNCHANGED <<mode, openai_key, deepseek_key, app_providers, rag_system, handled,
                 last_input>>

\* main enters chatbot.interactive_mode() or chatbot.batch_evaluation(file)
EnterQueryHandling ==
  /\ UNCHANGED exceptMain
  /\ mpc = "rag"
  /\ mpc' = mode
  /\ UNCHANGED <<mode, openai_key, deepseek_key, merr, app_providers, rag_system, handled,
                 last_input>>

\* the largest number of queries followed in one interactive session
MaxInputs == 3

\* the kinds of line the interactive loop reads
InputKinds == {"salir", "help", "empty", "/compare", "/chatgpt", "/deepseek", "question",
               "KeyboardInterrupt"}

\* one iteration of the interactive loop: leave, show help, skip an empty
\* line, or hand the query to the RAG system (an exception it raises is
\* printed and the loop goes on)
HandleInput(kind) ==
  /\ UNCHANGED exceptMain
  /\ mpc = "interactive"
  /\ last_input' = kind
  /\ IF kind \in {"salir", "KeyboardInterrupt"}
       THEN mpc' = "exit0" /\ UNCHANGED handled
       ELSE IF kind \in {"help", "empty"}
         THEN UNCHANGED <<mpc, handled>>
         ELSE /\ handled < MaxInputs
              /\ handled' = handled + 1
              /\ UNCHANGED mpc
  /\ UNCHANGED <<mode, openai_key, deepseek_key, merr, app_providers, rag_system>>

\* batch_evaluation(eval_file): the evaluation runs its questions and
\* returns, or raises
BatchEvaluation(raised) ==
  /\ UNCHANGED exceptMain
  /\ mpc = "batch"
  /\ handled' = handled + 1
  /\ merr' = raised
  /\ mpc' = IF raised # "" THEN "fatal" ELSE "exit0"
  /\ UNCHANGED <<mode, openai_key, deepseek_key, app_providers, rag_system, last_input>>

\* the values an API key variable of the environment has
KeyValues == {None, Some(""), Some("key")}

\* the exceptions the set-up of the index and the evaluation end in, "" for
\* none
SetupOutcomes == {"", "IOError", "IndexError"}

\* chatbot = UFROChatbot() has run
MainStart ==
  /\ mode \in {"interactive", "batch", "build-index"}
  /\ openai_key \in KeyValues
  /\ deepseek_key \in KeyValues
  /\ mpc = "start"
  /\ merr = ""
  /\ app_providers = <<>>
  /\ rag_system = None
  /\ handled = 0
  /\ last_input = "none"

\* the entry point is not running
MainIdle ==
  /\ mode = "interactive"
  /\ openai_key = None
  /\ deepseek_key = None
  /\ mpc = "exit0"
  /\ merr = ""
  /\ app_providers = <<>>
  /\ rag_system = None
  /\ handled = 0
  /\ last_input = "none"

MainNext ==
  \/ SetupProviders
  \/ \E raised \in SetupOutcomes : SetupRagSystem(raised)
  \/ \E raised \in SetupOutcomes : BuildIndexMode(raised)
  \/ EnterQueryHandling
  \/ \E kind \in InputKinds : HandleInput(kind)
  \/ \E raised \in SetupOutcomes : BatchEvaluation(raised)

(***************************************************************************)
(* The page texts and configurations chunk_text is run on: runs of a       *)
(* letter with up to two boundary markers laid over them.                  *)
(***************************************************************************)
\* the longest page text
MaxTextLen == 130

TextLens == {0, 1, 30, 50, 51, 60, 61, 70, 100, 123, MaxTextLen}
MarkPositions == {1, 38, 45, 58, 66, 97}
MarkKinds == { <<".", " ">>, <<",", " ">>, <<" ", " ", " ">> }
Marks == [p : MarkPositions, pat : MarkKinds]
MarkSets == {ms \in SUBSET Marks : Cardinality(ms) <= 2}

\* the text of length n that reads "x" everywhere except under the markers;
\* where two markers meet the one that starts first is written
PageText(n, ms) ==
  [i \in 1..n |->
     LET over == {m \in ms : m.p <= i /\ i < m.p + Len(m.pat)}
     IN  IF over = {} THEN "x"
         ELSE LET m == CHOOSE m \in over : \A o \in over : m.p <= o.p
              IN  m.pat[i - m.p + 1]]

PageTexts == {PageText(n, ms) : n \in TextLens, ms \in MarkSets}

\* (chunk_size, chunk_overlap) pairs with overlap < chunk_size
ChunkConfigs == {<<60, 5>>, <<60, 20>>, <<60, 45>>, <<90, 55>>}

\* pairs with overlap >= chunk_size, which the constructor takes as well
OverlappingConfigs == {<<60, 60>>, <<60, 70>>}

\* the configuration app.build_index uses by default and page texts of 2000
\* characters, with boundary markers past 60% of a window or without
DefaultConfig == <<900, 120>>
LongMarks == {[p |-> 561, pat |-> <<".", " ">>], [p |-> 1001, pat |-> <<".", " ">>],
              [p |-> 1701, pat |-> <<",", " ">>]}
LongTexts == {PageText(2000, ms) : ms \in SUBSET LongMarks}

\* the page numbers of the model
PageNumbers == {1, 2}

\* the text of a page that follows the first one: a sentence end at offset 37
FollowingTexts == {PageText(MaxTextLen, {[p |-> 38, pat |-> <<".", " ">>]})}

\* the persisted files found at start-up: none, the pair of an index that
\* holds no segment, or the index file of the corpus without its chunks file
\* (what save_index leaves behind when it fails after faiss.write_index)
InitialDisks ==
  {[index_file |-> None, chunks_file |-> None],
   [index_file |-> Some(<<>>), chunks_file |-> Some(<<>>)],
   [index_file |-> Some(BuildFaissIndex(Corpus)), chunks_file |-> None]}

RagInit ==
  /\ index = None
  /\ chunks = <<>>
  /\ disk \in InitialDisks
  /\ providers \in ProviderConfigs
  /\ pc = "idle"
  /\ err = ""
  /\ op = "none"
  /\ hits = <<>>
  /\ kArg = 0
  /\ requested = None
  /\ context = <<>>
  /\ sources = <<>>
  /\ toUse = <<>>
  /\ pos = 1
  /\ callLog = <<>>
  /\ responses = <<>>
  /\ ret = None

RagNext ==
  \/ \E cs \in ChunkLists : BuildAndSaveIndex(cs)
  \/ LoadIndex
  \/ \E q \in QueryEncodings, k \in 1..MaxK : Search(q, k)
  \/ \E q \in QueryEncodings, req \in RequestedNames : ProcessQuery(q, req)
  \/ \E q \in QueryEncodings : CompareProviders(q)
  \/ \E out \in ApiOutcomes : CallProvider(out)
  \/ Return
  \/ Resume

vars == <<ragVars, chunkVars, fnVars, evalVars, mainVars>>

\* the chunker at rest
ChunkIdle ==
  /\ text = <<>>
  /\ chunk_size = 800
  /\ chunk_overlap = 150
  /\ cpc = "idle"
  /\ start = 0
  /\ outChunks = <<>>
  /\ windows = <<>>
  /\ iter = 0
  /\ page = 1
  /\ all_chunks = <<>>

\* the index and the router: every behaviour of one EmbeddingSystem and one
\* RAGSystem under any sequence of calls
Init == RagInit /\ ChunkIdle /\ FnIdle /\ EvalIdle /\ MainIdle
Next == RagNext
Spec == Init /\ [][Next]_vars

\* the index and the router at rest
RagIdle ==
  /\ index = None
  /\ chunks = <<>>
  /\ disk = [index_file |-> None, chunks_file |-> None]
  /\ providers = <<>>
  /\ pc = "idle"
  /\ err = ""
  /\ op = "none"
  /\ hits = <<>>
  /\ kArg = 0
  /\ requested = None
  /\ context = <<>>
  /\ sources = <<>>
  /\ toUse = <<>>
  /\ pos = 1
  /\ callLog = <<>>
  /\ responses = <<>>
  /\ ret = None

\* chunk_text on every page text and configuration of the model
ChunkInit ==
  /\ \/ /\ text \in PageTexts
        /\ \E cfg \in ChunkConfigs \cup OverlappingConfigs :
             chunk_size = cfg[1] /\ chunk_overlap = cfg[2]
        /\ page = 1
     \/ /\ text \in LongTexts
        /\ chunk_size = DefaultConfig[1]
        /\ chunk_overlap = DefaultConfig[2]
        /\ page \in PageNumbers
  /\ cpc = "idle"
  /\ start = 0
  /\ outChunks = <<>>
  /\ windows = <<>>
  /\ iter = 0
  /\ all_chunks = <<>>

ChunkNext ==
  \/ ChunkText
  \/ ChunkStep
  \/ AppendPageChunks
  \/ \E t \in FollowingTexts : NextPage(t)

InitChunk == ChunkInit /\ RagIdle /\ FnIdle /\ EvalIdle /\ MainIdle
NextChunk == ChunkNext
SpecChunk == InitChunk /\ [][NextChunk]_vars

\* the pure helpers, each applied to every input of the model
InitFn == FnIdle /\ RagIdle /\ ChunkIdle /\ EvalIdle /\ MainIdle
NextFn == FnNext
SpecFn == InitFn /\ [][NextFn]_vars

\* the backends app.setup_providers configures: ChatGPT, DeepSeek or both,
\* in that order
AppProviders == {<<GPT4>>, <<DS>>, <<GPT4, DS>>}

\* the RAG system a batch evaluation runs on: an index built from two
\* segments, or the corpus index loaded without its segments
RagReady ==
  /\ \/ /\ index = Some(BuildFaissIndex(<<SegA, SegB>>))
        /\ chunks = <<SegA, SegB>>
        /\ disk = [index_file |-> Some(BuildFaissIndex(<<SegA, SegB>>)),
                   chunks_file |-> Some(SaveRows(<<SegA, SegB>>))]
     \/ /\ index = Some(BuildFaissIndex(Corpus))
        /\ chunks = <<>>
        /\ disk = [index_file |-> Some(BuildFaissIndex(Corpus)), chunks_file |-> None]
  /\ providers \in AppProviders
  /\ pc = "idle"
  /\ err = ""
  /\ op = "none"
  /\ hits = <<>>
  /\ kArg = 0
  /\ requested = None
  /\ context = <<>>
  /\ sources = <<>>
  /\ toUse = <<>>
  /\ pos = 1
  /\ callLog = <<>>
  /\ responses = <<>>
  /\ ret = None

\* full evaluation runs over every evaluation file of the model
InitEval == EvalIdle /\ RagReady /\ ChunkIdle /\ FnIdle /\ MainIdle
NextEval == EvalNext
SpecEval == InitEval /\ [][NextEval]_vars

\* one run of main from every environment and mode; main runs its
\* statements one after the other, so a step that can be taken is taken
InitMain == MainStart /\ RagIdle /\ ChunkIdle /\ FnIdle /\ EvalIdle
NextMain == MainNext
SpecMain == InitMain /\ [][NextMain]_vars /\ WF_vars(SetupProviders)

(***************************************************************************)
(* Properties of the router.                                               *)
(***************************************************************************)
QueryReturned == op = "query" /\ pc = "returned"

\* the chat result of the i-th call of the running query carries an error
CallFailed(i) == "error" \in DOMAIN Chat(providers[callLog[i].at], callLog[i].out)

\* the positions process_query called, in call order
CalledPositions == [i \in 1..Len(callLog) |-> callLog[i].at]

\* the positions whose call did not fail, in call order
RECURSIVE SucceededFrom(_)
SucceededFrom(i) ==
  IF i > Len(callLog) THEN <<>>
  ELSE (IF CallFailed(i) THEN <<>> ELSE <<callLog[i].at>>) \o SucceededFrom(i + 1)

\* C1: process_query abstains exactly when retrieval returned no source.  With
\* no source it returns one response named "System" that carries the fixed
\* message, no sources and zero tokens, latency and cost, and it calls no
\* backend, whatever is configured or requested; with a source it never
\* returns a response named "System" and never the abstention message.
C1_AbstainsIffNoSources ==
  /\ (op = "query" /\ pc = "dispatch") => sources # <<>>
  /\ (op = "query" /\ callLog # <<>>) => sources # <<>>
  /\ QueryReturned =>
       IF sources = <<>>
         THEN /\ ret # None
              /\ Len(ret[1]) = 1
              /\ ret[1][1].provider_name = <<"S","y","s","t","e","m">>
              /\ ret[1][1].answer = Some(AbstentionMessage)
              /\ ret[1][1].sources = <<>>
              /\ ret[1][1].tokens_used = 0
              /\ ret[1][1].latency = 0
              /\ ret[1][1].cost = 0
              /\ callLog = <<>>
         ELSE /\ ret # None
              /\ \A i \in 1..Len(ret[1]) :
                   /\ ret[1][i].provider_name # <<"S","y","s","t","e","m">>
                   /\ ret[1][i].answer # Some(AbstentionMessage)

\* an abstention with two backends configured and a backend requested by name
C1_Witness ==
  /\ QueryReturned
  /\ sources = <<>>
  /\ Len(providers) = 2
  /\ Truthy(requested)
  /\ Len(ret[1]) = 1

\* a remote outcome without usable content: no completion, or a completion
\* whose content is None or empty
NoUsableContent(out) == out.kind = "exception" \/ out.content \in {None, Some("")}

\* C2: a backend whose call errors or whose response has no answer text has
\* no response in the returned list, and process_query raises nothing: the
\* returned list holds one response per call that produced answer text, and
\* every response in it carries answer text.
C2_NoContentIsOmitted ==
  (op = "query" /\ pc \in {"returned", "raised"} /\ callLog # <<>>) =>
     /\ pc = "returned"
     /\ ret # None
     /\ Len(ret[1]) = Cardinality({i \in 1..Len(callLog) : ~NoUsableContent(callLog[i].out)})
     /\ \A i \in 1..Len(ret[1]) : ret[1][i].answer \notin {None, Some("")}

\* C3: with no backend requested and a source retrieved, every configured
\* backend is called exactly once in configuration order, failures included;
\* the returned responses are those of the calls that did not fail, in
\* configuration order; nothing is returned while a call is still to be made.
C3_AllBackendsInOrder ==
  (op = "query" /\ ~Truthy(requested) /\ sources # <<>>) =>
     /\ pc \in {"dispatch", "returned"}
     /\ pc = "dispatch" => (ret = None /\ Len(callLog) <= Len(providers))
     /\ \A i \in 1..Len(callLog) : callLog[i].at = i
     /\ pc = "returned" =>
          /\ ret # None
          /\ CalledPositions = [i \in 1..Len(providers) |-> i]
          /\ Len(ret[1]) = Len(SucceededFrom(1))
          /\ \A i \in 1..Len(ret[1]) :
               /\ ret[1][i].provider_name = Name(providers[SucceededFrom(1)[i]])
               /\ ret[1][i].answer = callLog[SucceededFrom(1)[i]].out.content
               /\ ret[1][i].sources = sources

\* two backends, the first call failed, the second was still made and is the
\* only response
C3_Witness ==
  /\ QueryReturned
  /\ ~Truthy(requested)
  /\ Len(providers) = 2
  /\ Len(callLog) = 2
  /\ CallFailed(1)
  /\ ~CallFailed(2)
  /\ Len(ret[1]) = 1

\* the display name of p contains `name`, compared character by character
\* without regard to case
MatchesIgnoringCase(p, name) ==
  \E off \in 0..(Len(Name(p)) - Len(name)) :
    \A i \in 1..Len(name) : LowerChar(Name(p)[off + i]) = LowerChar(name[i])

\* C4: with a backend requested by name and a source retrieved, the backends
\* called are exactly the configured ones whose display name contains the
\* requested name ignoring case, each once and in configuration order; when
\* none matches, an empty list is returned and nothing is raised.
C4_OnlyMatchingBackends ==
  (op = "query" /\ Truthy(requested) /\ sources # <<>>) =>
     /\ pc \in {"dispatch", "returned"}
     /\ \A i \in 1..Len(callLog) : MatchesIgnoringCase(providers[callLog[i].at], requested[1])
     /\ \A i, j \in 1..Len(callLog) : i < j => callLog[i].at < callLog[j].at
     /\ pc = "returned" =>
          /\ \A n \in 1..Len(providers) :
               MatchesIgnoringCase(providers[n], requested[1])
                 <=> \E i \in 1..Len(callLog) : callLog[i].at = n
          /\ (\A n \in 1..Len(providers) : ~MatchesIgnoringCase(providers[n], requested[1]))
               => ret = Some(<<>>)

\* two backends configured, one matches the requested name and only it was called
C4_Witness ==
  /\ QueryReturned
  /\ Truthy(requested)
  /\ sources # <<>>
  /\ Len(providers) = 2
  /\ Len(callLog) = 1
  /\ ~MatchesIgnoringCase(providers[1], requested[1])
  /\ callLog[1].at = 2

(***************************************************************************)
(* Properties of the index.                                                *)
(***************************************************************************)
\* C5: after a build or a load the index holds as many vectors as there are
\* segments, and every row index search uses to pick a segment is a stored
\* row, 0 <= i < number of segments.
C5_SearchUsesStoredRows ==
  /\ (op \in {"build", "load"} /\ pc = "returned") =>
       (index # None /\ Len(index[1]) = Len(chunks))
  /\ \A h \in 1..Len(hits) : 0 <= hits[h].idx /\ hits[h].idx < Len(chunks)

SearchReturned == op \in {"search", "query", "compare"} /\ pc \in {"returned", "dispatch"}

\* C6: the scores of a returned search result never increase along the ranks,
\* and when k is at least the number of stored segments every stored segment
\* is in the result.
C6_RankedAndComplete ==
  SearchReturned =>
     /\ \A h \in 1..(Len(hits) - 1) : hits[h].score >= hits[h + 1].score
     /\ kArg >= Len(chunks) =>
          \A j \in 1..Len(chunks) :
            \E h \in 1..Len(hits) : hits[h].idx = j - 1 /\ hits[h].chunk = chunks[j]

\* a direct search with k above two stored segments of different scores
C6_Witness ==
  /\ op = "search"
  /\ pc = "returned"
  /\ Len(chunks) = 2
  /\ kArg > Len(chunks)
  /\ hits[1].score > hits[2].score
  /\ hits[1].idx = 1

\* the position in `chunks` of the segment a result was read from
StoredRow(h) == IF h.idx < 0 THEN Len(chunks) + h.idx ELSE h.idx

\* C23: a search with k >= 1 over an index of n segments, called directly or
\* by retrieve_context, returns at most min(k, n) results, and no stored
\* segment is in the result more than once, also when k is above n.
C23_AtMostMinAndDistinct ==
  SearchReturned =>
     /\ Len(hits) <= Min(kArg, Len(chunks))
     /\ \A a, b \in 1..Len(hits) : a # b => StoredRow(hits[a]) # StoredRow(hits[b])

\* C7: a query against an index that holds no segment gets an empty context
\* and no sources from retrieval, and process_query returns the abstention
\* response without raising.
C7_EmptyIndexAbstains ==
  (op = "query" /\ index = Some(<<>>) /\ chunks = <<>>) =>
     /\ pc = "returned"
     /\ err = ""
     /\ context = <<>>
     /\ sources = <<>>
     /\ ret # None
     /\ Len(ret[1]) = 1
     /\ ret[1][1].provider_name = <<"S","y","s","t","e","m">>
     /\ ret[1][1].answer = Some(AbstentionMessage)
     /\ ret[1][1].sources = <<>>

\* C8: a search before any build or load raises the not-loaded error, returns
\* nothing and leaves the index None and the segment list empty; an index
\* that was built or loaded stays in place, and with it search never raises
\* that error.
C8_NotBuiltError ==
  /\ [](/\ (op = "search" /\ index = None) =>
             (pc = "raised" /\ err = "ValueError" /\ hits = <<>> /\ chunks = <<>>)
        /\ (op \in {"search", "query"} /\ err = "ValueError") => index = None
        /\ (op \in {"build", "load"} /\ pc = "returned") => index # None)
  /\ [][/\ index # None => index' # None
        /\ op' = "search" => (index' = index /\ chunks' = chunks)]_vars

\* a search on a fresh EmbeddingSystem
C8_Witness ==
  /\ op = "search"
  /\ pc = "raised"
  /\ err = "ValueError"
  /\ index = None

(***************************************************************************)
(* Properties of the chunker.                                              *)
(***************************************************************************)
\* C9: a text no longer than chunk_size yields exactly one segment, the
\* trimmed text, unless it is shorter than the minimum length, and then it
\* yields none; the empty text yields none.
C9_ShortTextOneSegment ==
  (cpc \in {"done", "appended"} /\ Len(text) <= chunk_size) =>
     outChunks = IF Len(text) < MinChunkLen THEN <<>> ELSE <<Strip(text)>>

\* the iterations whose chunk was returned
KeptWindows == SelectSeq(windows, LAMBDA w : w.kept)

\* the positions of the text inside the window of w, before trimming
Span(w) == {i \in 0..(Len(text) - 1) : w.start <= i /\ i < w.end}

\* C10: for a text longer than chunk_size and chunk_overlap < chunk_size, the
\* returned segments cover every character position of the text, and each
\* two consecutive returned segments share at least chunk_overlap characters
\* (spans taken before trimming, so that trimming and boundary snapping are
\* not counted).
C10_CoverageAndOverlap ==
  (cpc \in {"done", "appended"} /\ Len(text) > chunk_size /\ chunk_overlap < chunk_size) =>
     /\ \A i \in 0..(Len(text) - 1) :
          \E w \in 1..Len(KeptWindows) : i \in Span(KeptWindows[w])
     /\ \A w \in 1..(Len(KeptWindows) - 1) :
          Cardinality(Span(KeptWindows[w]) \cap Span(KeptWindows[w + 1])) >= chunk_overlap

\* the page of the ingestion scenario has been chunked and its segments made:
\* one page, page 1, of 2000 characters under chunk_size 900 and overlap 120
ScenarioIngested ==
  /\ cpc = "appended"
  /\ Len(text) = 2000
  /\ chunk_size = 900
  /\ chunk_overlap = 120
  /\ page = 1

ThreeSegmentsWithIds ==
  /\ Len(all_chunks) = 3
  /\ \A i \in 1..Len(all_chunks) :
       /\ Len(all_chunks[i].content) >= MinChunkLen
       /\ all_chunks[i].doc_id = "DOC1"
       /\ all_chunks[i].page = 1
  /\ [i \in 1..Len(all_chunks) |-> all_chunks[i].chunk_id]
       = << <<"DOC1", "_p", 1, "_c", 0>>, <<"DOC1", "_p", 1, "_c", 1>>,
            <<"DOC1", "_p", 1, "_c", 2>> >>

\* C11 as stated: every page text of 2000 characters, ingested as page 1 of
\* DOC1 with chunk_size 900 and overlap 120, gives exactly 3 segments of at
\* least 50 characters with the ids DOC1_p1_c0, DOC1_p1_c1, DOC1_p1_c2 in
\* that order.
C11_ThreeSegmentsAnyText == ScenarioIngested => ThreeSegmentsWithIds

\* no character of the text is a space, so that no window holds a boundary
\* marker
NoBoundary == \A i \in 1..Len(text) : ~IsSpace(text[i])

\* C11: a page text of 2000 characters that holds no boundary marker,
\* ingested as page 1 of DOC1 with chunk_size 900 and overlap 120, gives
\* exactly 3 segments of at least 50 characters with the ids DOC1_p1_c0,
\* DOC1_p1_c1, DOC1_p1_c2 in that order.
C11_ThreeSegmentsNoBoundary == (ScenarioIngested /\ NoBoundary) => ThreeSegmentsWithIds

\* the scenario's page without a boundary marker, cut at 900 and 1680
C11_Witness ==
  /\ ScenarioIngested
  /\ NoBoundary
  /\ Len(windows) = 3
  /\ Len(all_chunks[1].content) = 900
  /\ Len(all_chunks[3].content) = 440

\* C12: with chunk_overlap >= chunk_size the configuration is rejected:
\* chunk_text never enters its loop and no segment is produced.
C12_OverlapRejected ==
  chunk_overlap >= chunk_size =>
     /\ cpc = "idle"
     /\ windows = <<>>
     /\ outChunks = <<>>
     /\ all_chunks = <<>>

\* C22: with 0 <= chunk_overlap < chunk_size the window start is never
\* negative and strictly increases from each iteration of chunk_text's loop to
\* the next, also when the cut is snapped back to a boundary marker, so that
\* the loop ends.
C22_StartStrictlyIncreases ==
  (0 <= chunk_overlap /\ chunk_overlap < chunk_size) =>
     /\ start >= 0
     /\ \A w \in 1..Len(windows) :
          windows[w].start < (IF w < Len(windows) THEN windows[w + 1].start ELSE start)

\* the window of the last iteration, as the code slices it
LastWindow ==
  LET s == windows[Len(windows)].start
  IN  PySlice(text, s, s + chunk_size)

\* the boundary kinds, by their place in the priority order, whose last
\* occurrence in the last window lies past 60% of chunk_size
QualifyingKinds ==
  {m \in 1..Len(BreakMarkers) : 5 * RFind(LastWindow, BreakMarkers[m]) > 3 * chunk_size}

\* C24: in every window that does not reach the end of the text the cut is
\* one past the last occurrence of the first boundary kind, in the order
\* sentence end, question end, exclamation end, colon, semicolon, comma,
\* space, whose last occurrence lies past 60% of chunk_size into the window,
\* whatever lower kind occurs later; when no kind qualifies the cut is the
\* window edge; so the cut lies more than 60% of chunk_size and at most
\* chunk_size after the window start.
C24_CutAtFirstQualifyingKind ==
  windows # <<>> =>
    LET w == windows[Len(windows)]
        first == CHOOSE m \in QualifyingKinds : \A n \in QualifyingKinds : m <= n
    IN  w.start + chunk_size < Len(text) =>
          /\ w.end = IF QualifyingKinds = {}
                       THEN w.start + chunk_size
                       ELSE w.start + RFind(LastWindow, BreakMarkers[first]) + 1
          /\ 5 * (w.end - w.start) > 3 * chunk_size
          /\ w.end - w.start <= chunk_size

\* a first window of 60 characters with a sentence end at offset 37 and a
\* comma at offset 44, both past 60%, cut after the sentence end
C24_Witness ==
  /\ chunk_size = 60
  /\ Len(text) > 60
  /\ Len(windows) = 1
  /\ SubSeq(text, 38, 39) = <<".", " ">>
  /\ SubSeq(text, 45, 46) = <<",", " ">>
  /\ windows[1].start = 0
  /\ windows[1].end = 38

\* the segments process_documents has made of page p so far, in order
PageSegments(p) == SelectSeq(all_chunks, LAMBDA c : c.page = p)

\* C25: the segment at position i (from 0) among the segments kept for a page
\* has the id <docId>_p<page>_c<i>, so the indices of a page are 0..n-1
\* without gaps whatever was discarded; no two segments of the same document
\* and page share an id; and the ids are those of the list chunk_text
\* returned for the page, in its order, so that the same input gives the same
\* ids again.
C25_IdsByPagePosition ==
  /\ \A p \in {all_chunks[i].page : i \in 1..Len(all_chunks)} :
       \A i \in 1..Len(PageSegments(p)) :
         PageSegments(p)[i].chunk_id = <<PageSegments(p)[i].doc_id, "_p", p, "_c", i - 1>>
  /\ \A a, b \in 1..Len(all_chunks) :
       (a # b /\ all_chunks[a].doc_id = all_chunks[b].doc_id
              /\ all_chunks[a].page = all_chunks[b].page)
         => all_chunks[a].chunk_id # all_chunks[b].chunk_id
  /\ cpc = "appended" =>
       /\ Len(PageSegments(page)) = Len(outChunks)
       /\ \A i \in 1..Len(outChunks) :
            /\ PageSegments(page)[i].content = outChunks[i]
            /\ PageSegments(page)[i].chunk_id = <<"DOC1", "_p", page, "_c", i - 1>>

\* the second page of a document has given two segments after a first window
\* whose chunk was discarded as too short, and the first page one or more
C25_Witness ==
  /\ cpc = "appended"
  /\ page = 2
  /\ PageSegments(1) # <<>>
  /\ Len(PageSegments(2)) = 2
  /\ chunk_overlap = 20
  /\ ~windows[1].kept
  /\ windows[2].kept
  /\ PageSegments(2)[2].chunk_id = <<"DOC1", "_p", 2, "_c", 1>>

(***************************************************************************)
(* Properties of the pure helpers.                                         *)
(***************************************************************************)
\* the query of the last rewrite, lower-cased and trimmed
NormalisedQuery == Strip(Lower(fnArgs.query))

\* the expansions, each behind a space, of the table entries from i on whose
\* key occurs in base, in table order
RECURSIVE ExpansionsFrom(_, _)
ExpansionsFrom(base, i) ==
  IF i > Len(Keywords) THEN <<>>
  ELSE (IF Contains(base, Keywords[i].key)
          THEN <<" ">> \o Keywords[i].expansion ELSE <<>>)
       \o ExpansionsFrom(base, i + 1)

\* C13: rewrite_query returns the lower-cased, trimmed query followed by the
\* expansion terms of each table entry, in declaration order, whose key
\* occurs in that query: once for a key that occurs (however often), nothing
\* for a key that does not.
C13_RewriteAppendsExpansions ==
  fn = "rewrite_query" =>
     fnResult = NormalisedQuery \o ExpansionsFrom(NormalisedQuery, 1)

\* a query in upper case and out of table order that holds two keys
C13_Witness ==
  /\ fn = "rewrite_query"
  /\ fnArgs.query # NormalisedQuery
  /\ Cardinality({i \in 1..Len(Keywords) : Contains(NormalisedQuery, Keywords[i].key)}) = 2
  /\ Len(fnResult) > Len(NormalisedQuery)

\* C16: the estimated cost is input tokens / 1000 x input rate + output
\* tokens / 1000 x output rate at the rates the backend's own price table
\* gives for its model (here in units of 1e-8 USD, rates per 1K tokens in
\* 1e-5 USD), and 0 for a model that is not in the table.
C16_CostFormula ==
  fn = "estimate_cost" =>
     LET p == fnArgs.provider
         rates == Pricing(p)
     IN  IF rates = None
           THEN fnResult = 0
           ELSE fnResult = fnArgs.input_tokens * rates[1].input
                             + fnArgs.output_tokens * rates[1].output

\* a priced call with both token counts positive, and a call on a model that
\* another class's table prices
C16_Witness ==
  /\ fn = "estimate_cost"
  /\ \/ /\ fnArgs.provider = Provider("DeepSeek", "deepseek-reasoner")
        /\ fnArgs.input_tokens = 1000
        /\ fnArgs.output_tokens = 1500
        /\ fnResult = 385000
     \/ /\ fnArgs.provider = Provider("ChatGPT", "deepseek-chat")
        /\ fnArgs.input_tokens = 1000
        /\ fnResult = 0

\* C18: citation coverage is the number of distinct expected document ids
\* found among the response's sources over the number of distinct expected
\* document ids, lies within [0, 1], and is 1 when no source was expected.
C18_CitationCoverage ==
  fn = "calculate_citation_coverage" =>
     LET expected == {fnArgs.expected_sources[i] : i \in DOMAIN fnArgs.expected_sources}
         found == {d \in expected :
                     \E i \in DOMAIN fnArgs.sources : fnArgs.sources[i].doc_id = d}
     IN  /\ fnResult.den > 0
         /\ 0 <= fnResult.num
         /\ fnResult.num <= fnResult.den
         /\ IF expected = {}
              THEN fnResult.num = fnResult.den
              ELSE fnResult.num * Cardinality(expected) = Cardinality(found) * fnResult.den

\* an expected list that repeats an id, half of its distinct ids cited
C18_Witness ==
  /\ fn = "calculate_citation_coverage"
  /\ Len(fnArgs.expected_sources) = 2
  /\ fnArgs.expected_sources[1] # fnArgs.expected_sources[2]
  /\ Len(fnArgs.sources) = 3
  /\ fnResult = Frac(1, 2)

\* C19: for k >= 1, precision-at-k is the number of the first min(k, n) of
\* the n retrieved sources whose document id is expected, over min(k, n); it
\* lies within [0, 1]; nothing is divided by zero (with no retrieved source
\* the value is 0).
C19_PrecisionAtK ==
  (fn = "calculate_precision_at_k" /\ fnArgs.k >= 1) =>
     LET n == Len(fnArgs.retrieved_sources)
         m == IF fnArgs.k < n THEN fnArgs.k ELSE n
         hitsInTop == {i \in 1..m :
                         \E j \in DOMAIN fnArgs.expected_sources :
                            fnArgs.expected_sources[j] = fnArgs.retrieved_sources[i].doc_id}
     IN  /\ fnResult.raised = ""
         /\ fnResult.value.den > 0
         /\ 0 <= fnResult.value.num
         /\ fnResult.value.num <= fnResult.value.den
         /\ IF m = 0
              THEN fnResult.value.num = 0
              ELSE fnResult.value.num * m = Cardinality(hitsInTop) * fnResult.value.den

\* k above the number retrieved: two sources, one of them expected, k = 4
C19_Witness ==
  /\ fn = "calculate_precision_at_k"
  /\ fnArgs.k = 4
  /\ Len(fnArgs.retrieved_sources) = 2
  /\ fnResult = [raised |-> "", value |-> Frac(1, 2)]

\* C26: for every successful call of a backend of any class the total token
\* count of the result is its input token count plus its output token count,
\* and it is the tokens_used of the response made of the result.
C26_TotalIsInputPlusOutput ==
  (fn = "chat" /\ "error" \notin DOMAIN fnResult.result) =>
     /\ fnResult.result.total_tokens =
          fnResult.result.input_tokens + fnResult.result.output_tokens
     /\ Len(fnResult.responses) = 1
     /\ fnResult.responses[1].tokens_used = fnResult.result.total_tokens

(***************************************************************************)
(* Properties of retrieval's assembly and of the compare mode.             *)
(***************************************************************************)
\* C14: retrieval builds one source per search hit, in the hits' order; the
\* preview of a source is the hit's content cut to 300 characters, and it
\* carries the ellipsis marker exactly when the content is longer than 300
\* characters; the context holds one block of title, page and full content
\* per hit in the same order.
C14_PreviewEllipsisIffTruncated ==
  (op \in {"query", "compare"} /\ pc \in {"dispatch", "returned"} /\ hits # <<>>) =>
     /\ Len(sources) = Len(hits)
     /\ Len(context) = Len(hits)
     /\ \A i \in 1..Len(hits) :
          LET c == hits[i].chunk.content
          IN  /\ sources[i].content.head.text = c.text
              /\ sources[i].content.head.len = (IF c.len > PreviewLen THEN PreviewLen ELSE c.len)
              /\ (sources[i].content.tail = "...") <=> (c.len > PreviewLen)
              /\ sources[i].doc_id = hits[i].chunk.doc_id
              /\ sources[i].score = hits[i].score
              /\ context[i] = [title |-> hits[i].chunk.title, page |-> hits[i].chunk.page,
                                content |-> c]

\* the dict expected of a response list: its keys are the names in the list,
\* and a name's value is the last response of that name
IsDictOf(d, resps) ==
  /\ DOMAIN d = {resps[i].provider_name : i \in 1..Len(resps)}
  /\ \A i \in 1..Len(resps) :
       (\A j \in (i + 1)..Len(resps) : resps[j].provider_name # resps[i].provider_name)
         => d[resps[i].provider_name] = resps[i]

CompareReturned == op = "compare" /\ pc = "returned"

\* C15 as stated: compare_providers returns the dict of the all-backends
\* dispatch's responses by display name, a later response replacing an
\* earlier one of the same name; with a single backend configured and a
\* source retrieved the dict has exactly one key, that backend's name.
C15_CompareOneKeyAlways ==
  CompareReturned =>
     /\ ret # None
     /\ IsDictOf(ret[1], responses)
     /\ ~Truthy(requested)
     /\ (Len(providers) = 1 /\ sources # <<>>) => DOMAIN ret[1] = {Name(providers[1])}

\* C15: compare_providers returns the dict of the all-backends dispatch's
\* responses by display name, a later response replacing an earlier one of
\* the same name; with a single backend configured whose call does not fail
\* and a source retrieved the dict has exactly one key, that backend's name.
C15_CompareOneKeyOnSuccess ==
  CompareReturned =>
     /\ ret # None
     /\ IsDictOf(ret[1], responses)
     /\ ~Truthy(requested)
     /\ (Len(providers) = 1 /\ sources # <<>> /\ ~CallFailed(1))
          => DOMAIN ret[1] = {Name(providers[1])}
     /\ (Len(providers) = 1 /\ sources # <<>> /\ CallFailed(1)) => DOMAIN ret[1] = {}

\* two backends of one display name answered differently: one key, the
\* later answer
C15_Witness ==
  /\ CompareReturned
  /\ Len(providers) = 2
  /\ Len(responses) = 2
  /\ responses[1].provider_name = responses[2].provider_name
  /\ responses[1].answer # responses[2].answer
  /\ DOMAIN ret[1] = {Name(providers[2])}
  /\ ret[1][Name(providers[2])].answer = responses[2].answer

(***************************************************************************)
(* Properties of the evaluator.                                            *)
(***************************************************************************)
\* <<question id, provider name>> of every response produced for the rows
\* from j on, in the order produced
RECURSIVE ResponsesFrom(_)
ResponsesFrom(j) ==
  IF j > Len(produced) THEN <<>>
  ELSE [i \in 1..Len(produced[j]) |-> <<j - 1, produced[j][i]>>] \o ResponsesFrom(j + 1)

\* the rows (0-based ids) for which the provider named n produced a response
AnsweredBy(n) ==
  {j \in 1..Len(produced) : \E i \in 1..Len(produced[j]) : produced[j][i] = n}

EvaluationDone == epc = "done"

\* C17: after a full evaluation run the detailed records hold exactly one row
\* per response produced, in the order produced, so that a question with
\* zero responses adds no record; the summary has an entry for each provider
\* that produced a response, and its n_questions is the number of questions
\* on which that provider produced one.  With 10 questions and 2 backends of
\* which the second fails on 2 questions, its n_questions is 8 and there are
\* 18 detailed rows.
C17_OneRowPerResponse ==
  EvaluationDone =>
     /\ Len(produced) = Len(eval_df)
     /\ [i \in 1..Len(all_results) |-> <<all_results[i].question_id, all_results[i].provider>>]
          = ResponsesFrom(1)
     /\ \A j \in 1..Len(produced) :
          produced[j] = <<>> => \A i \in 1..Len(all_results) : all_results[i].question_id # j - 1
     /\ summary # None
     /\ DOMAIN summary[1] = {ResponsesFrom(1)[i][2] : i \in 1..Len(ResponsesFrom(1))}
     /\ \A n \in DOMAIN summary[1] : summary[1][n].n_questions = Cardinality(AnsweredBy(n))
     /\ (/\ Len(eval_df) = 10
         /\ Len(providers) = 2
         /\ Cardinality(AnsweredBy(Name(providers[1]))) = 10
         /\ Cardinality(AnsweredBy(Name(providers[2]))) = 8)
          => (summary[1][Name(providers[2])].n_questions = 8 /\ Len(all_results) = 18)

\* 10 questions, 2 backends, the second failed on questions 3 and 7
C17_Witness ==
  /\ EvaluationDone
  /\ Len(eval_df) = 10
  /\ Len(providers) = 2
  /\ Cardinality(AnsweredBy(Name(providers[1]))) = 10
  /\ AnsweredBy(Name(providers[2])) = (1..10) \ {3, 7}
  /\ Len(all_results) = 18

\* the display names of the configured backends
ConfiguredNames == {Name(providers[i]) : i \in 1..Len(providers)}

\* retrieval finds no source for the questions of the run
ZeroSources ==
  LET so == SearchOutcome(index, chunks, QuestionEncoding, RetrieveK)
  IN  so.raised = "" /\ so.results = <<>>

\* C27: after a full evaluation run every key of the summary and every
\* provider value of the detailed records is the display name of a configured
\* backend, and a question for which retrieval finds zero sources adds no
\* record to the statistics of any backend.
C27_OnlyConfiguredBackends ==
  EvaluationDone =>
     /\ summary # None
     /\ DOMAIN summary[1] \subseteq ConfiguredNames
     /\ \A i \in 1..Len(all_results) : all_results[i].provider \in ConfiguredNames
     /\ ZeroSources =>
          /\ all_results = <<>>
          /\ \A n \in DOMAIN provider_results : provider_results[n] = <<>>

(***************************************************************************)
(* Properties of the entry point.                                          *)
(***************************************************************************)
\* no API key of a generation backend is set, in a mode that answers queries
NoBackendConfigured ==
  /\ mode \in {"interactive", "batch"}
  /\ ~KeySet(openai_key)
  /\ ~KeySet(deepseek_key)

\* C20: when no generation backend is configured, in the interactive and
\* batch modes, start-up ends in the fatal exit with the configuration error
\* raised by setup_providers; the RAG system is never set up and neither the
\* interactive loop nor the batch evaluation is ever entered, so no query is
\* handled.
C20_NoBackendIsFatal ==
  /\ [](NoBackendConfigured =>
          /\ mpc \in {"start", "fatal"}
          /\ rag_system = None
          /\ handled = 0
          /\ mpc = "fatal" => merr = "ValueError")
  /\ (NoBackendConfigured ~> (mpc = "fatal" /\ merr = "ValueError"))

\* batch mode with one key unset and the other set to the empty string
C20_Witness ==
  /\ mode = "batch"
  /\ openai_key = None
  /\ deepseek_key = Some("")
  /\ mpc = "fatal"
  /\ merr = "ValueError"
  /\ rag_system = None


(***************************************************************************)
(* The round trip through the two persisted files.                         *)
(***************************************************************************)
\* the two files hold what save_index writes for the index and the segment
\* list that are in memory
SavedFromMemory ==
  /\ index # None
  /\ disk.index_file = index
  /\ disk.chunks_file = Some(SaveRows(chunks))

\* C21: a load_index that reads the files save_index wrote for the index and
\* the segments in memory restores both with the same values in the same order
\* (every field of segment i equal, row i of the vectors still with segment
\* i), and every search gives the same outcome after the load as before it.
C21_SaveLoadRoundTrip ==
  [][(SavedFromMemory /\ op' = "load") =>
       /\ pc' = "returned"
       /\ index' = index
       /\ Len(chunks') = Len(chunks)
       /\ \A i \in 1..Len(chunks) :
            /\ \A f \in DOMAIN chunks[i] : chunks'[i][f] = chunks[i][f]
            /\ index'[1][i] = NormalizeL2(Encode(chunks'[i].content))
       /\ \A q \in QueryEncodings, k \in 1..MaxK :
            SearchOutcome(index', chunks', q, k) = SearchOutcome(index, chunks, q, k)]_vars

\* a load has returned two different segments that a build had saved
C21_Witness ==
  /\ op = "load"
  /\ pc = "returned"
  /\ Len(chunks) = 2
  /\ chunks[1] # chunks[2]
  /\ SavedFromMemory

====
